---- MODULE Spec2Model ----
(***************************************************************************)
(* The website generator of api/generate-website (src/unnamed/part_004):   *)
(* the websites and website_versions collections   of the realtime       *)
(* database, the in-process generation cache, and the request handlers     *)
(* that create, edit, fork, read, update and delete websites.              *)
(*                                                                         *)
(* Every handler is an async function.  It is modelled as a sequence of    *)
(* atomic steps, one per awaited database operation or generator call:     *)
(* a step is the effect of the awaited operation followed by the           *)
(* synchronous code up to the next await.  Requests are run by the         *)
(* processes of Procs; steps of different requests interleave freely.      *)
(*                                                                         *)
(* Database objects are records that hold exactly the properties that      *)
(* were written: a property written as null or undefined is absent, a      *)
(* path with no property does not exist, and update() merges properties    *)
(* into whatever is at the path (creating it when nothing is there).       *)
(* Strings that the code concatenates are sequences of tokens.  A process   *)
(* keeps the request it serves while it serves it, then the exchange (the   *)
(* request and its response) until the caller has taken the response.      *)
(***************************************************************************)
EXTENDS Integers, Sequences, FiniteSets, TLC

(***************************************************************************)
(* Bounds of the model.                                                    *)
(***************************************************************************)
MaxWebsites == 3
MaxVersions == 3
MaxViews == 1
MaxTime == 1
\* the smaller budget of the runs in which two requests overlap
RaceWebsites == 2
RaceVersions == 3
RaceViews == 1
\* the budget of the runs in which gets, creates, edits and forks overlap
CounterWebsites == 2
CounterVersions == 2
CounterViews == 2
\* the budget of the runs in which the forks and the gets of two callers overlap
OverlapWebsites == 3
OverlapVersions == 3
OverlapViews == 1
\* how far the clock goes in the runs of the generation cache
CacheTime == 2

ListWebsites == 2
ListVersions == 2
ListViews == 1
ListTime == 2

HangWebsites == 1
HangVersions == 2
HangViews == 1

MetaWebsites == 1
MetaVersions == 2
MetaViews == 2

(***************************************************************************)
(* IEEE-754 binary64 arithmetic on version numbers.  A double d with       *)
(* 1 <= d < 2^15 is held exactly as the integer d * 2^56, written in three *)
(* limbs <<a, b, c>> of base 2^20 (a * 2^40 + b * 2^20 + c).               *)
(***************************************************************************)
Limb == 2^20

\* integer part of a double
DblInt(x) == x[1] \div 2^16

\* the double of a small integer n
DblOfInt(n) == <<n * 2^16, 0, 0>>

\* the spacing, in units of 2^-56, of the doubles of the binade of integer part n
RECURSIVE Ulp(_)
Ulp(n) == IF n < 2 THEN 16 ELSE 2 * Ulp(n \div 2)

\* exact sum of two limb numbers
BigAdd(x, y) ==
  LET c == x[3] + y[3]
      b == x[2] + y[2] + (c \div Limb)
      a == x[1] + y[1] + (b \div Limb)
  IN  <<a, b % Limb, c % Limb>>

\* round an exact value to the nearest double, ties to even; sticky says that
\* the exact value lies strictly above the limb number s
DblRound(s, sticky) ==
  LET q    == Ulp(DblInt(s))
      r    == s[3] % q
      down == <<s[1], s[2], s[3] - r>>
      odd  == ((s[3] - r) \div q) % 2 = 1
      up   == \/ 2 * r > q
              \/ 2 * r = q /\ (sticky \/ odd)
  IN  IF up THEN BigAdd(down, <<0, 0, q>>) ELSE down

\* x + y in double arithmetic
DblAdd(x, y) == DblRound(BigAdd(x, y), FALSE)

\* the double a decimal literal t/10 denotes (1.0, 0.1, 1.2, ...), t >= 10:
\* t * 2^56 divided by ten, limb by limb, then rounded
DblOfTenths(t) ==
  LET a  == (t * 2^16) \div 10
      ra == (t * 2^16) % 10
      b  == (ra * Limb) \div 10
      rb == (ra * Limb) % 10
      c  == (rb * Limb) \div 10
      rc == (rb * Limb) % 10
  IN  DblRound(<<a, b, c>>, rc # 0)

\* the literal 0.1 (below 1, so given by its bits: 0x3FB999999999999A)
DblTenth == <<6553, 629145, 629146>>

\* Math.floor(x) + 1
DblFloorPlusOne(x) == DblOfInt(DblInt(x) + 1)

(***************************************************************************)
(* Values the requests and the collaborators supply.                       *)
(***************************************************************************)
\* the users collection (not written by these handlers)
KnownUsers == {"u1", "u2"}
\* the user ids callers send with create, and with the other requests
CreateUsers == {"u1", "u9"}
RequestUsers == {"u1", "u2"}

\* a faulty validateUserExistence that finds every user
validateUserExistenceAlways(userId) == TRUE

\* validateUserExistence(userId): findUserByUserId(userId) !== null
validateUserExistence(userId) == userId \in KnownUsers

DEFAULT_WEBSITE_TYPE == <<"general">>
Prompts == {<<"p">>}
EditPrompts == {<<"e">>}

\* what the generator can answer to a prompt: a text, possibly inside a markdown
\* fence, or nothing; or it fails
GeneratorTexts(fullPrompt) ==
  {<<"<html>">> \o fullPrompt \o <<"</html>">>,
   <<"FENCE_HTML", "<html>">> \o fullPrompt \o <<"</html>", "FENCE">>,
   <<>>}
GeneratorErrors == {<<"Unavailable">>}

\* the answers of GeneratorTexts, and answers with nothing in them but white
\* space or a markdown fence
GeneratorAnswers(fullPrompt) ==
  GeneratorTexts(fullPrompt) \cup {<<" ">>, <<"FENCE_HTML", " ", "FENCE">>}

\* the id that names no website
NoSuchId == 0

(***************************************************************************)
(* Objects and the database.                                               *)
(***************************************************************************)
NoRec == [f \in {} |-> 0]
Has(r, f) == f \in DOMAIN r
Exists(r) == DOMAIN r # {}
Opt(f, S) == {NoRec} \cup {f :> v : v \in S}
WithOpt(r, f, o) == IF Has(o, f) THEN (f :> o[f]) @@ r ELSE r
Pick(r, fields) == [f \in DOMAIN r \cap fields |-> r[f]]

\* ref.update(upd): the properties of upd replace or extend what is stored
DbUpdate(stored, upd) == upd @@ stored

VARIABLES websites, versions, generationCache, timers, now, nextWebsiteId,
          nextVersionId, pc, req, loc, resp

vars == <<websites, versions, generationCache, timers, now, nextWebsiteId,
          nextVersionId, pc, req, loc, resp>>

Procs == {"P1", "P2"}
WebsiteIds == 1..MaxWebsites
VersionIds == 1..MaxVersions

Init ==
  /\ websites = [w \in WebsiteIds |-> NoRec]
  /\ versions = [v \in VersionIds |-> NoRec]
  /\ generationCache = NoRec
  /\ timers = {}
  /\ now = 0
  /\ nextWebsiteId = 1
  /\ nextVersionId = 1
  /\ pc = [p \in Procs |-> "idle"]
  /\ req = [p \in Procs |-> NoRec]
  /\ loc = [p \in Procs |-> NoRec]
  /\ resp = [p \in Procs |-> NoRec]

Ready(p) == pc[p] = "idle"

\* requests that will still draw a website id / a version id
AwaitingWebsiteId == {p \in Procs : pc[p] \in {"create_gen", "fork_read", "fork_readV"}}
AwaitingVersionId ==
  {p \in Procs : pc[p] \in {"create_gen", "fork_read", "fork_readV",
                            "edit_read", "edit_readV", "edit_gen"}}
WebsiteIdLeft(B) == nextWebsiteId + Cardinality(AwaitingWebsiteId) <= B.websites
VersionIdLeft(B) == nextVersionId + Cardinality(AwaitingVersionId) <= B.versions

\* the budgets of a run: how many ids it may draw, how far a view counter may go
\* and the types and tags its creates may ask for besides the default
Plain == [types |-> {}, tags |-> {}]
SeqBounds ==
  [websites |-> MaxWebsites, versions |-> MaxVersions, views |-> MaxViews] @@ Plain
RaceBounds ==
  [websites |-> RaceWebsites, versions |-> RaceVersions, views |-> RaceViews] @@ Plain
CounterBounds ==
  [websites |-> CounterWebsites, versions |-> CounterVersions, views |-> CounterViews]
    @@ Plain
OverlapBounds ==
  [websites |-> OverlapWebsites, versions |-> OverlapVersions, views |-> OverlapViews]
    @@ Plain
HangBounds ==
  [websites |-> HangWebsites, versions |-> HangVersions, views |-> HangViews] @@ Plain
MetaBounds ==
  [websites |-> MetaWebsites, versions |-> MetaVersions, views |-> MetaViews] @@ Plain
ListBounds ==
  [websites |-> ListWebsites, versions |-> ListVersions, views |-> ListViews,
   types |-> {<<"portfolio">>}, tags |-> {<<(<<"a">>)>>}]

\* the ids a caller can name: every id handed out so far, and one that names nothing
KnownIds == {NoSuchId} \cup (1..(nextWebsiteId - 1))

\* the handler is called with request r and runs to an await, with locals l
Begin(p, r, label, l) ==
  /\ req' = [req EXCEPT ![p] = r]
  /\ pc' = [pc EXCEPT ![p] = label]
  /\ loc' = [loc EXCEPT ![p] = l]
  /\ UNCHANGED resp

\* the handler goes on to its next await with locals l
Continue(p, label, l) ==
  /\ pc' = [pc EXCEPT ![p] = label]
  /\ loc' = [loc EXCEPT ![p] = l]
  /\ UNCHANGED <<req, resp>>

\* res.status(s).json(body): request r is answered and over
Respond(p, r, status, body) ==
  /\ resp' = [resp EXCEPT ![p] = [request |-> r, status |-> status] @@ body]
  /\ pc' = [pc EXCEPT ![p] = "done"]
  /\ req' = [req EXCEPT ![p] = NoRec]
  /\ loc' = [loc EXCEPT ![p] = NoRec]

\* the caller has the response; the process is free to take the next request
Finish(p) ==
  /\ pc[p] = "done"
  /\ pc' = [pc EXCEPT ![p] = "idle"]
  /\ resp' = [resp EXCEPT ![p] = NoRec]
  /\ UNCHANGED <<websites, versions, generationCache, timers, now, nextWebsiteId,
                 nextVersionId, req, loc>>

Failure(msg) == [success |-> FALSE, error |-> msg]

\* getWebsiteById / getVersionById: the stored object, or null
getWebsiteById(websiteId) ==
  IF websiteId \in WebsiteIds THEN websites[websiteId] ELSE NoRec
getVersionById(versionId) ==
  IF versionId \in VersionIds THEN versions[versionId] ELSE NoRec

\* the versions query of deleteWebsite / getWebsiteVersions
VersionsOf(websiteId) ==
  {v \in VersionIds : Exists(versions[v]) /\ versions[v].website_id = websiteId}

(***************************************************************************)
(* generateHtmlCode(prompt, type)                                          *)
(***************************************************************************)
\* the time to live of a cache entry, in ticks of the model clock
CACHE_TTL_MS == 1

cacheKey(prompt, type) == prompt \o <<":">> \o type

\* the prompt sent to the generator
fullPrompt(prompt, type) ==
  <<"Website Type: ">> \o type \o <<"User Request: ">> \o prompt

\* a text without its leading / trailing white space (the token " ")
RECURSIVE TrimStart(_)
TrimStart(text) ==
  IF text # <<>> /\ Head(text) = " " THEN TrimStart(Tail(text)) ELSE text
RECURSIVE TrimEnd(_)
TrimEnd(text) ==
  IF text # <<>> /\ text[Len(text)] = " "
    THEN TrimEnd(SubSeq(text, 1, Len(text) - 1)) ELSE text

\* text.replace(/^FENCE_HTML\s*/, '').replace(/FENCE$/, '').trim(), FENCE being
\* the three backquotes of a markdown code fence
StripFence(text) ==
  LET a == IF text # <<>> /\ Head(text) = "FENCE_HTML" THEN TrimStart(Tail(text)) ELSE text
      b == IF a # <<>> /\ a[Len(a)] = "FENCE" THEN SubSeq(a, 1, Len(a) - 1) ELSE a
  IN  TrimEnd(TrimStart(b))

\* generationCache.set(cacheKey, html); setTimeout(delete, CACHE_TTL_MS)
CacheStore(key, html) ==
  /\ generationCache' = (key :> html) @@ generationCache
  /\ timers' = timers \cup {[key |-> key, due |-> now + CACHE_TTL_MS]}

\* the timer callback: generationCache.delete(cacheKey)
CacheEvict ==
  \E t \in timers :
    /\ t.due <= now
    /\ timers' = timers \ {t}
    /\ generationCache' = [k \in DOMAIN generationCache \ {t.key} |-> generationCache[k]]
    /\ UNCHANGED <<websites, versions, now, nextWebsiteId, nextVersionId, pc, req, loc, resp>>

\* Date.now() advances, up to limit
Advance(limit) ==
  /\ now < limit
  /\ now' = now + 1
  /\ UNCHANGED <<websites, versions, generationCache, timers, nextWebsiteId,
                 nextVersionId, pc, req, loc, resp>>

Tick == Advance(MaxTime)

(***************************************************************************)
(* handleGenerate: generateHtmlCode without a website                      *)
(***************************************************************************)
GenerateRequests == {[op |-> "generate"] @@ pr : pr \in Opt("prompt", Prompts)}

\* generate requests whose prompt or type has the separator of the cache key in it
KeyPrompts == {<<"a">>, <<"a", ":", "b">>}
KeyTypes == {<<"c">>, <<"b", ":", "c">>}
KeyRequests ==
  {[op |-> "generate"] @@ pr @@ ty :
     pr \in Opt("prompt", KeyPrompts), ty \in Opt("type", KeyTypes)}

\* type || DEFAULT_WEBSITE_TYPE
TypeOf(r) == IF Has(r, "type") THEN r.type ELSE DEFAULT_WEBSITE_TYPE

\* the body handleGenerate answers with
GenerateResponse(r, html) ==
  [success |-> TRUE, html |-> html, prompt |-> r.prompt, type |-> TypeOf(r)]

\* handleGenerate up to the generator call, or to its answer on a cache hit, for
\* a request of the given set
GenerateFrom(p, requests) ==
  /\ Ready(p)
  /\ \E r \in requests :
       IF ~Has(r, "prompt") \/ r.prompt = <<>>
         THEN Respond(p, r, 400, Failure(<<"Prompt is required">>))
       ELSE IF Has(generationCache, cacheKey(r.prompt, TypeOf(r)))
         THEN Respond(p, r, 200,
                GenerateResponse(r, generationCache[cacheKey(r.prompt, TypeOf(r))]))
       ELSE Begin(p, r, "gen_gen", NoRec)
  /\ UNCHANGED <<websites, versions, generationCache, timers, now, nextWebsiteId,
                 nextVersionId>>

StartGenerate(p) == GenerateFrom(p, GenerateRequests)

\* the generator answers the call of handleGenerate
GenerateGen(p) ==
  /\ pc[p] = "gen_gen"
  /\ \/ \E e \in GeneratorErrors :
          /\ Respond(p, req[p], 500, Failure(e))
          /\ UNCHANGED <<generationCache, timers>>
     \/ \E text \in GeneratorAnswers(fullPrompt(req[p].prompt, TypeOf(req[p]))) :
          IF text = <<>>
            THEN /\ Respond(p, req[p], 500, Failure(<<"No content generated.">>))
                 /\ UNCHANGED <<generationCache, timers>>
            ELSE /\ CacheStore(cacheKey(req[p].prompt, TypeOf(req[p])), StripFence(text))
                 /\ Respond(p, req[p], 200, GenerateResponse(req[p], StripFence(text)))
  /\ UNCHANGED <<websites, versions, now, nextWebsiteId, nextVersionId>>

GenerateStep(p) == StartGenerate(p) \/ GenerateGen(p)

(***************************************************************************)
(* generateVariations and handleGenerateVariations                         *)
(***************************************************************************)
DEFAULT_VARIATIONS == 3
MAX_VARIATIONS == 10

VariationsRequests ==
  {[op |-> "variations"] @@ pr @@ n :
     pr \in Opt("prompt", Prompts), n \in Opt("variations", {0, 1, 2, 11})}

\* a number as the template literal writes it: its decimal digits
RECURSIVE DecimalString(_)
DecimalString(n) ==
  LET digit == <<"0", "1", "2", "3", "4", "5", "6", "7", "8", "9">>[(n % 10) + 1]
  IN  IF n < 10 THEN <<digit>> ELSE Append(DecimalString(n \div 10), digit)

\* a faulty generateVariations that sends the prompt as it is
variedPromptUnmarked(prompt, i) == prompt

\* the prompt of variation i (counted from 0)
variedPrompt(prompt, i) ==
  prompt \o <<" (variation ">> \o DecimalString(i + 1)
         \o <<": focus on unique layout and color scheme)">>

\* a faulty handler that does not clamp the number of variations
actualVariationsUnclamped(r) ==
  IF Has(r, "variations") /\ r.variations # 0 THEN r.variations ELSE DEFAULT_VARIATIONS

\* Math.min(variations || DEFAULT_VARIATIONS, MAX_VARIATIONS), in the handler
\* and again in generateVariations
actualVariations(r) ==
  LET asked == IF Has(r, "variations") /\ r.variations # 0
                 THEN r.variations ELSE DEFAULT_VARIATIONS
      first == IF asked < MAX_VARIATIONS THEN asked ELSE MAX_VARIATIONS
  IN  IF first < MAX_VARIATIONS THEN first ELSE MAX_VARIATIONS

\* the entry generateVariations pushes for variation i (counted from 0)
VariationEntry(r, i, html) ==
  [variation_id |-> i + 1, html |-> html, prompt |-> variedPrompt(r.prompt, i),
   type |-> TypeOf(r)]

\* the loop of generateVariations, run on with the given cache for as long as
\* generateHtmlCode finds the variation's key there
RECURSIVE ServedFromCache(_, _, _, _)
ServedFromCache(cache, r, n, results) ==
  LET i == Len(results)
      key == cacheKey(variedPrompt(r.prompt, i), TypeOf(r))
  IN  IF i < n /\ Has(cache, key)
        THEN ServedFromCache(cache, r, n, Append(results, VariationEntry(r, i, cache[key])))
        ELSE results

\* the loop goes on with the given cache: to the answer when it is through, or
\* to the next call of the generator
VariationsLoop(p, cache, r, n, results) ==
  LET served == ServedFromCache(cache, r, n, results)
  IN  IF Len(served) >= n
        THEN Respond(p, r, 200,
                     [success |-> TRUE, variations |-> served, count |-> Len(served)])
        ELSE /\ req' = [req EXCEPT ![p] = r]
             /\ pc' = [pc EXCEPT ![p] = "var_gen"]
             /\ loc' = [loc EXCEPT ![p] = [n |-> n, results |-> served]]
             /\ UNCHANGED resp

StartVariations(p) ==
  /\ Ready(p)
  /\ \E r \in VariationsRequests :
       IF ~Has(r, "prompt") \/ r.prompt = <<>>
         THEN Respond(p, r, 400, Failure(<<"Prompt is required">>))
         ELSE VariationsLoop(p, generationCache, r, actualVariations(r), <<>>)
  /\ UNCHANGED <<websites, versions, generationCache, timers, now, nextWebsiteId,
                 nextVersionId>>

\* the generator answers the call for the variation the loop is at
VariationsGen(p) ==
  /\ pc[p] = "var_gen"
  /\ LET i == Len(loc[p].results)
         prompt == variedPrompt(req[p].prompt, i)
         key == cacheKey(prompt, TypeOf(req[p]))
     IN  \/ \E e \in GeneratorErrors :
              /\ Respond(p, req[p], 500, Failure(e))
              /\ UNCHANGED <<generationCache, timers>>
         \/ \E text \in GeneratorAnswers(fullPrompt(prompt, TypeOf(req[p]))) :
              IF text = <<>>
                THEN /\ Respond(p, req[p], 500, Failure(<<"No content generated.">>))
                     /\ UNCHANGED <<generationCache, timers>>
                ELSE /\ CacheStore(key, StripFence(text))
                     /\ VariationsLoop(p, (key :> StripFence(text)) @@ generationCache,
                                       req[p], loc[p].n,
                                       Append(loc[p].results,
                                              VariationEntry(req[p], i, StripFence(text))))
  /\ UNCHANGED <<websites, versions, now, nextWebsiteId, nextVersionId>>

VariationsStep(p) == StartVariations(p) \/ VariationsGen(p)

(***************************************************************************)
(* createWebsite and handleCreateWebsite                                   *)
(***************************************************************************)
CreateRequests ==
  {[op |-> "create"] @@ u @@ pr @@ pub :
     u \in Opt("user_id", CreateUsers), pr \in Opt("prompt", Prompts \cup {<<>>}),
     pub \in Opt("is_public", BOOLEAN)}

\* a faulty createWebsite that makes every new website public
NewWebsiteAlwaysPublic(websiteId, versionId, userId, r, timestamp) ==
  WithOpt([website_id |-> websiteId,
           user_id |-> userId,
           project_name |-> <<"New Website">>,
           description |-> <<>>,
           type |-> TypeOf(r),
           is_public |-> TRUE,
           thumbnail |-> <<>>,
           total_versions |-> 1,
           latest_version_id |-> versionId,
           total_edits |-> 0,
           total_views |-> 0,
           total_forks |-> 0,
           created_at |-> timestamp,
           updated_at |-> timestamp], "tags", r)

\* the website object createWebsite builds
NewWebsite(websiteId, versionId, userId, r, timestamp) ==
  WithOpt([website_id |-> websiteId,
           user_id |-> userId,
           project_name |-> <<"New Website">>,
           description |-> <<>>,
           type |-> TypeOf(r),
           is_public |-> IF Has(r, "is_public") THEN r.is_public ELSE FALSE,
           thumbnail |-> <<>>,
           total_versions |-> 1,
           latest_version_id |-> versionId,
           total_edits |-> 0,
           total_views |-> 0,
           total_forks |-> 0,
           created_at |-> timestamp,
           updated_at |-> timestamp], "tags", r)

\* the version object createWebsite builds (edit_prompt and parent_version_id are null)
InitialVersion(websiteId, versionId, userId, r, html, timestamp) ==
  [version_id |-> versionId,
   website_id |-> websiteId,
   user_id |-> userId,
   html |-> html,
   prompt |-> r.prompt,
   type |-> TypeOf(r),
   is_initial |-> TRUE,
   version_number |-> DblOfTenths(10),
   created_at |-> timestamp,
   updated_at |-> timestamp,
   view_count |-> 0,
   fork_count |-> 0]

\* createWebsite up to its first write: the ids, the timestamp and the two objects
CreateLocals(r, html) ==
  [html |-> html,
   website |-> NewWebsite(nextWebsiteId, nextVersionId, r.user_id, r, now),
   version |-> InitialVersion(nextWebsiteId, nextVersionId, r.user_id, r, html, now)]

\* handleCreateWebsite up to the generator call, or past it on a cache hit
StartCreate(p, B) ==
  /\ Ready(p)
  /\ WebsiteIdLeft(B) /\ VersionIdLeft(B)
  /\ \E r \in {c @@ t @@ g : c \in CreateRequests, t \in Opt("type", B.types),
                                g \in Opt("tags", B.tags)} :
       IF ~Has(r, "user_id")
         THEN /\ Respond(p, r, 400, Failure(<<"User ID is required">>))
              /\ UNCHANGED <<nextWebsiteId, nextVersionId>>
       ELSE IF ~Has(r, "prompt") \/ r.prompt = <<>>
         THEN /\ Respond(p, r, 400, Failure(<<"Prompt is required">>))
              /\ UNCHANGED <<nextWebsiteId, nextVersionId>>
       ELSE IF ~validateUserExistence(r.user_id)
         THEN /\ Respond(p, r, 400, Failure(<<"User does not exist">>))
              /\ UNCHANGED <<nextWebsiteId, nextVersionId>>
       ELSE IF Has(generationCache, cacheKey(r.prompt, TypeOf(r)))
         THEN /\ Begin(p, r, "create_setW",
                       CreateLocals(r, generationCache[cacheKey(r.prompt, TypeOf(r))]))
              /\ nextWebsiteId' = nextWebsiteId + 1
              /\ nextVersionId' = nextVersionId + 1
       ELSE /\ Begin(p, r, "create_gen", NoRec)
            /\ UNCHANGED <<nextWebsiteId, nextVersionId>>
  /\ UNCHANGED <<websites, versions, generationCache, timers, now>>

\* the generator answers the create's call
CreateGen(p) ==
  /\ pc[p] = "create_gen"
  /\ \/ \E e \in GeneratorErrors :
          /\ Respond(p, req[p], 500, Failure(e))
          /\ UNCHANGED <<generationCache, timers, nextWebsiteId, nextVersionId>>
     \/ \E text \in GeneratorTexts(fullPrompt(req[p].prompt, TypeOf(req[p]))) :
          IF text = <<>>
            THEN /\ Respond(p, req[p], 500, Failure(<<"No content generated.">>))
                 /\ UNCHANGED <<generationCache, timers, nextWebsiteId, nextVersionId>>
            ELSE /\ CacheStore(cacheKey(req[p].prompt, TypeOf(req[p])), StripFence(text))
                 /\ Continue(p, "create_setW", CreateLocals(req[p], StripFence(text)))
                 /\ nextWebsiteId' = nextWebsiteId + 1
                 /\ nextVersionId' = nextVersionId + 1
  /\ UNCHANGED <<websites, versions, now>>

\* db.ref(websites/websiteId).set(website)
CreateSetWebsite(p) ==
  /\ pc[p] = "create_setW"
  /\ websites' = [websites EXCEPT ![loc[p].website.website_id] = loc[p].website]
  /\ Continue(p, "create_setV", loc[p])
  /\ UNCHANGED <<versions, generationCache, timers, now, nextWebsiteId, nextVersionId>>

\* db.ref(website_versions/versionId).set(version); then trackView starts
CreateSetVersion(p) ==
  /\ pc[p] = "create_setV"
  /\ versions' = [versions EXCEPT ![loc[p].version.version_id] = loc[p].version]
  /\ Continue(p, "create_tvRead", loc[p])
  /\ UNCHANGED <<websites, generationCache, timers, now, nextWebsiteId, nextVersionId>>

\* the body handleCreateWebsite answers with
CreateResponse(l) ==
  [success |-> TRUE,
   website |-> Pick(l.website, {"website_id", "project_name", "description", "type",
                                "is_public", "tags", "total_versions",
                                "latest_version_id", "created_at", "updated_at"}),
   version |-> Pick(l.version, {"version_id", "version_number", "prompt", "type"}),
   html |-> l.html]

\* the updates trackView computes from the website it read
ViewUpdates(website) ==
  [total_views |-> (IF Has(website, "total_views") THEN website.total_views ELSE 0) + 1,
   updated_at |-> now]

\* trackView: getWebsiteById, return when null
CreateTrackRead(p) ==
  /\ pc[p] = "create_tvRead"
  /\ LET website == getWebsiteById(loc[p].website.website_id)
     IN  IF ~Exists(website)
           THEN Respond(p, req[p], 201, CreateResponse(loc[p]))
           ELSE Continue(p, "create_tvWrite", [updates |-> ViewUpdates(website)] @@ loc[p])
  /\ UNCHANGED <<websites, versions, generationCache, timers, now, nextWebsiteId,
                 nextVersionId>>

\* trackView: db.ref(websites/websiteId).update(updates)
CreateTrackWrite(p) ==
  /\ pc[p] = "create_tvWrite"
  /\ websites' = [websites EXCEPT ![loc[p].website.website_id] =
                    DbUpdate(@, loc[p].updates)]
  /\ Respond(p, req[p], 201, CreateResponse(loc[p]))
  /\ UNCHANGED <<versions, generationCache, timers, now, nextWebsiteId, nextVersionId>>

(***************************************************************************)
(* getWebsiteWithLatestVersion, trackView and handleGetWebsites (one id)   *)
(***************************************************************************)
GetRequests ==
  {[op |-> "get", website_id |-> w] @@ u :
     w \in KnownIds, u \in Opt("user_id", RequestUsers)}

\* the object getWebsiteWithLatestVersion(websiteId, true) returns
WithLatestVersion(website, version) ==
  IF ~Exists(version) THEN website
  ELSE [latest_version |->
          Pick(version, {"version_id", "version_number", "prompt", "type",
                         "created_at", "html"})] @@ website

\* what handleGetWebsites decides once it has the website (null when none)
GetDecision(website, r) ==
  IF ~Exists(website)
    THEN [status |-> 404] @@ Failure(<<"Website not found">>)
  ELSE IF /\ ~(Has(website, "is_public") /\ website.is_public)
          /\ ~(Has(website, "user_id") /\ Has(r, "user_id") /\ website.user_id = r.user_id)
    THEN [status |-> 403] @@ Failure(<<"Access denied. This website is private.">>)
  ELSE [status |-> 200, success |-> TRUE, website |-> website]

StartGet(p, B) ==
  /\ Ready(p)
  /\ \E r \in GetRequests :
       /\ LET w == getWebsiteById(r.website_id)
          IN  (GetDecision(w, r).status = 200 /\ Has(w, "total_views"))
                => w.total_views < B.views
       /\ Begin(p, r, "get_read", NoRec)
  /\ UNCHANGED <<websites, versions, generationCache, timers, now, nextWebsiteId,
                 nextVersionId>>

\* getWebsiteById(websiteId)
GetRead(p) ==
  /\ pc[p] = "get_read"
  /\ LET website == getWebsiteById(req[p].website_id)
     IN  IF ~Exists(website)
           THEN Respond(p, req[p], GetDecision(NoRec, req[p]).status, GetDecision(NoRec, req[p]))
           ELSE Continue(p, "get_readV", [website |-> website])
  /\ UNCHANGED <<websites, versions, generationCache, timers, now, nextWebsiteId,
                 nextVersionId>>

\* getVersionById(website.latest_version_id), then the access check
GetReadVersion(p) ==
  /\ pc[p] = "get_readV"
  /\ LET website == loc[p].website
         version == IF Has(website, "latest_version_id")
                      THEN getVersionById(website.latest_version_id) ELSE NoRec
         answer  == GetDecision(WithLatestVersion(website, version), req[p])
     IN  IF answer.status # 200
           THEN Respond(p, req[p], answer.status, answer)
           ELSE Continue(p, "get_tvRead", [answer |-> answer])
  /\ UNCHANGED <<websites, versions, generationCache, timers, now, nextWebsiteId,
                 nextVersionId>>

\* trackView: getWebsiteById, return when null
GetTrackRead(p) ==
  /\ pc[p] = "get_tvRead"
  /\ LET website == getWebsiteById(req[p].website_id)
     IN  IF ~Exists(website)
           THEN Respond(p, req[p], 200, loc[p].answer)
           ELSE Continue(p, "get_tvWrite", [updates |-> ViewUpdates(website)] @@ loc[p])
  /\ UNCHANGED <<websites, versions, generationCache, timers, now, nextWebsiteId,
                 nextVersionId>>

\* trackView: db.ref(websites/websiteId).update(updates)
GetTrackWrite(p) ==
  /\ pc[p] = "get_tvWrite"
  /\ websites' = [websites EXCEPT ![req[p].website_id] = DbUpdate(@, loc[p].updates)]
  /\ Respond(p, req[p], 200, loc[p].answer)
  /\ UNCHANGED <<versions, generationCache, timers, now, nextWebsiteId, nextVersionId>>

(***************************************************************************)
(* getWebsiteVersions and handleGetVersions                                *)
(***************************************************************************)
VersionsRequests ==
  {[op |-> "versions"] @@ w @@ u :
     w \in Opt("website_id", KnownIds), u \in Opt("user_id", RequestUsers)}

\* x < y for two doubles
DblLess(x, y) ==
  \/ x[1] < y[1]
  \/ x[1] = y[1] /\ x[2] < y[2]
  \/ x[1] = y[1] /\ x[2] = y[2] /\ x[3] < y[3]

\* the snapshot's versions (in key order) sorted by version_number, greatest first
RECURSIVE SortedVersions(_)
SortedVersions(ids) ==
  IF ids = {} THEN <<>>
  ELSE LET first == CHOOSE v \in ids : \A u \in ids \ {v} :
                      \/ DblLess(versions[u].version_number, versions[v].version_number)
                      \/ /\ versions[u].version_number = versions[v].version_number
                         /\ v < u
       IN  <<versions[first]>> \o SortedVersions(ids \ {first})

\* a faulty getWebsiteVersions without the access check
VersionsCheckExistsOnly(website, r) ==
  IF ~Exists(website)
    THEN [status |-> 404] @@ Failure(<<"Website not found">>)
  ELSE NoRec

\* what getWebsiteVersions decides once it has the website: an error, or NoRec to go on
VersionsCheck(website, r) ==
  IF ~Exists(website)
    THEN [status |-> 404] @@ Failure(<<"Website not found">>)
  ELSE IF /\ ~(Has(website, "is_public") /\ website.is_public)
          /\ ~(Has(website, "user_id") /\ Has(r, "user_id") /\ website.user_id = r.user_id)
    THEN [status |-> 403] @@ Failure(<<"Unauthorized: This website is private">>)
  ELSE NoRec

\* the body handleGetVersions answers with
VersionsResponse(website, list) ==
  [success |-> TRUE,
   website |-> Pick(website, {"website_id", "project_name", "user_id", "is_public",
                              "total_versions"}),
   versions |-> [i \in 1..Len(list) |->
                   Pick(list[i], {"version_id", "version_number", "prompt",
                                  "edit_prompt", "created_at", "view_count"})],
   count |-> Len(list)]

StartVersions(p) ==
  /\ Ready(p)
  /\ \E r \in VersionsRequests :
       IF ~Has(r, "website_id")
         THEN Respond(p, r, 400, Failure(<<"Website ID is required">>))
         ELSE Begin(p, r, "ver_read", NoRec)
  /\ UNCHANGED <<websites, versions, generationCache, timers, now, nextWebsiteId,
                 nextVersionId>>

\* getWebsiteById and the access check
VersionsRead(p) ==
  /\ pc[p] = "ver_read"
  /\ LET website == getWebsiteById(req[p].website_id)
         denied  == VersionsCheck(website, req[p])
     IN  IF Exists(denied)
           THEN Respond(p, req[p], denied.status, denied)
           ELSE Continue(p, "ver_query", [website |-> website])
  /\ UNCHANGED <<websites, versions, generationCache, timers, now, nextWebsiteId,
                 nextVersionId>>

\* orderByChild('website_id').equalTo(websiteId).once('value'), then the sort
VersionsQuery(p) ==
  /\ pc[p] = "ver_query"
  /\ Respond(p, req[p], 200,
             VersionsResponse(loc[p].website, SortedVersions(VersionsOf(req[p].website_id))))
  /\ UNCHANGED <<websites, versions, generationCache, timers, now, nextWebsiteId,
                 nextVersionId>>

(***************************************************************************)
(* listWebsites and handleGetWebsites (no id)                              *)
(***************************************************************************)
\* query strings are sequences of tokens: "a,b" is <<"a", ",", "b">>
ListRequests ==
  {[op |-> "list"] @@ u @@ po @@ t @@ g @@ l :
     u \in Opt("user_id", RequestUsers), po \in Opt("public_only", {"true", "false"}),
     t \in Opt("type", {DEFAULT_WEBSITE_TYPE, <<"portfolio">>}),
     g \in Opt("tags", {<<"a", ",", "b">>, <<"x">>}),
     l \in Opt("limit", {<<"1">>, <<"0">>, <<"x">>})}

\* tags.split(',')
RECURSIVE Split(_, _)
Split(str, part) ==
  IF str = <<>> THEN <<part>>
  ELSE IF Head(str) = "," THEN <<part>> \o Split(Tail(str), <<>>)
  ELSE Split(Tail(str), Append(part, Head(str)))

\* parseInt(limit): <<n>> for the leading digits of the string, <<>> for NaN
RECURSIVE Digits(_, _)
Digits(str, n) ==
  IF str # <<>> /\ Head(str) \in {"0", "1", "2"}
    THEN Digits(Tail(str),
                <<(IF n = <<>> THEN 0 ELSE 10 * n[1])
                    + (IF Head(str) = "0" THEN 0 ELSE IF Head(str) = "1" THEN 1 ELSE 2)>>)
    ELSE n
parseInt(str) ==
  IF str # <<>> /\ Head(str) = "-"
    THEN (IF Digits(Tail(str), <<>>) = <<>> THEN <<>> ELSE <<0 - Digits(Tail(str), <<>>)[1]>>)
    ELSE Digits(str, <<>>)

\* a faulty handleGetWebsites without the default of public websites only
ListFiltersNoDefault(r) ==
  LET asked == Has(r, "public_only") /\ r.public_only = "true"
  IN  Pick(r, {"user_id", "type"})
        @@ (IF asked THEN [is_public |-> TRUE] ELSE NoRec)
        @@ (IF Has(r, "tags") THEN [tags |-> Split(r.tags, <<>>)] ELSE NoRec)
        @@ (IF Has(r, "limit") THEN [limit |-> parseInt(r.limit)] ELSE NoRec)

\* the filters handleGetWebsites builds from the query
ListFilters(r) ==
  LET asked == Has(r, "public_only") /\ r.public_only = "true"
  IN  Pick(r, {"user_id", "type"})
        @@ (IF asked THEN [is_public |-> TRUE] ELSE NoRec)
        @@ (IF Has(r, "tags") THEN [tags |-> Split(r.tags, <<>>)] ELSE NoRec)
        @@ (IF Has(r, "limit") THEN [limit |-> parseInt(r.limit)] ELSE NoRec)
        @@ (IF ~Has(r, "user_id") /\ ~asked THEN [is_public |-> TRUE] ELSE NoRec)

\* the filters of listWebsites, applied to one website
Passes(website, filters) ==
  /\ Has(filters, "user_id") =>
       Has(website, "user_id") /\ website.user_id = filters.user_id
  /\ Has(filters, "is_public") =>
       Has(website, "is_public") /\ website.is_public = filters.is_public
  /\ Has(filters, "type") => Has(website, "type") /\ website.type = filters.type
  /\ (Has(filters, "tags") /\ Len(filters.tags) > 0) =>
       /\ Has(website, "tags")
       /\ \E i \in 1..Len(website.tags), j \in 1..Len(filters.tags) :
            website.tags[i] = filters.tags[j]

\* the websites of the snapshot (in key order) sorted by updated_at, greatest first;
\* every website that passes the filters of handleGetWebsites has an updated_at
RECURSIVE SortedWebsites(_)
SortedWebsites(ids) ==
  IF ids = {} THEN <<>>
  ELSE LET first == CHOOSE w \in ids : \A u \in ids \ {w} :
                      \/ websites[u].updated_at < websites[w].updated_at
                      \/ websites[u].updated_at = websites[w].updated_at /\ w < u
       IN  <<websites[first]>> \o SortedWebsites(ids \ {first})

\* websites.slice(0, n)
Slice(list, n) ==
  IF n >= 0 THEN SubSeq(list, 1, IF n < Len(list) THEN n ELSE Len(list))
  ELSE SubSeq(list, 1, Len(list) + n)

\* listWebsites(filters)
listWebsites(filters) ==
  LET sorted == SortedWebsites({w \in WebsiteIds :
                                  Exists(websites[w]) /\ Passes(websites[w], filters)})
  IN  IF Has(filters, "limit") /\ filters.limit # <<>> /\ filters.limit[1] # 0
        THEN Slice(sorted, filters.limit[1])
        ELSE sorted

StartList(p) ==
  /\ Ready(p)
  /\ \E r \in ListRequests : Begin(p, r, "list_read", [filters |-> ListFilters(r)])
  /\ UNCHANGED <<websites, versions, generationCache, timers, now, nextWebsiteId,
                 nextVersionId>>

\* db.ref('websites').once('value'), the filters, the sort and the limit
ListRead(p) ==
  /\ pc[p] = "list_read"
  /\ LET list == listWebsites(loc[p].filters)
     IN  Respond(p, req[p], 200, [success |-> TRUE, websites |-> list, count |-> Len(list)])
  /\ UNCHANGED <<websites, versions, generationCache, timers, now, nextWebsiteId,
                 nextVersionId>>

ListStep(p) == StartList(p) \/ ListRead(p)

(***************************************************************************)
(* getForkedWebsites and handleGetForkedFrom                               *)
(***************************************************************************)
\* orderByChild('original_website_id').equalTo(id): the matching websites, in
\* key order
RECURSIVE getForkedWebsites(_, _)
getForkedWebsites(originalWebsiteId, from) ==
  IF from \notin WebsiteIds THEN <<>>
  ELSE (IF /\ Has(websites[from], "original_website_id")
           /\ websites[from].original_website_id = originalWebsiteId
          THEN <<websites[from]>> ELSE <<>>)
         \o getForkedWebsites(originalWebsiteId, from + 1)

StartForkedFrom(p) ==
  /\ Ready(p)
  /\ \E w \in Opt("website_id", KnownIds) :
       LET r == [op |-> "forked_from"] @@ w
       IN  IF ~Has(r, "website_id")
             THEN Respond(p, r, 400, Failure(<<"Website ID is required">>))
             ELSE Begin(p, r, "ff_query", NoRec)
  /\ UNCHANGED <<websites, versions, generationCache, timers, now, nextWebsiteId,
                 nextVersionId>>

\* the query of getForkedWebsites and the response
ForkedFromQuery(p) ==
  /\ pc[p] = "ff_query"
  /\ LET forks == getForkedWebsites(req[p].website_id, 1)
     IN  Respond(p, req[p], 200, [success |-> TRUE, forks |-> forks, count |-> Len(forks)])
  /\ UNCHANGED <<websites, versions, generationCache, timers, now, nextWebsiteId,
                 nextVersionId>>

(***************************************************************************)
(* updateWebsite and handleUpdateWebsite                                   *)
(***************************************************************************)
UpdateRequests ==
  {[op |-> "update"] @@ w @@ u @@ f :
     w \in Opt("website_id", KnownIds), u \in {[user_id |-> x] : x \in RequestUsers},
     f \in {NoRec, [is_public |-> TRUE], [is_public |-> FALSE],
             [is_public |-> TRUE, total_forks |-> 9]}}

allowedUpdates == {"project_name", "description", "is_public", "tags", "thumbnail"}

\* a faulty update that writes every property of the body but the two ids
MetadataUpdatesUnfiltered(r) ==
  [updated_at |-> now] @@ Pick(r, DOMAIN r \ {"op", "website_id", "user_id"})

\* the updates updateWebsite writes: the properties handleUpdateWebsite copies
\* from the body, those of them that are allowed, and the time
MetadataUpdates(r) ==
  [updated_at |-> now]
    @@ Pick(Pick(r, {"project_name", "description", "is_public", "tags", "thumbnail"}),
            allowedUpdates)

\* a faulty owner check that lets every caller through to a stored website
OwnerCheckExistsOnly(website, userId) ==
  IF ~Exists(website)
    THEN [status |-> 404] @@ Failure(<<"Website not found">>)
  ELSE NoRec

\* the error an owner-only operation ends with, or NoRec when the caller owns the website
OwnerCheck(website, userId) ==
  IF ~Exists(website)
    THEN [status |-> 404] @@ Failure(<<"Website not found">>)
  ELSE IF ~(Has(website, "user_id") /\ website.user_id = userId)
    THEN [status |-> 403] @@ Failure(<<"Unauthorized: You do not own this website">>)
  ELSE NoRec

StartUpdate(p) ==
  /\ Ready(p)
  /\ \E r \in UpdateRequests :
       IF ~Has(r, "website_id")
         THEN Respond(p, r, 400, Failure(<<"Website ID and User ID are required">>))
         ELSE Begin(p, r, "upd_read", NoRec)
  /\ UNCHANGED <<websites, versions, generationCache, timers, now, nextWebsiteId,
                 nextVersionId>>

\* getWebsiteById, the owner check, and the updates object
UpdateRead(p) ==
  /\ pc[p] = "upd_read"
  /\ LET website == getWebsiteById(req[p].website_id)
         denied  == OwnerCheck(website, req[p].user_id)
     IN  IF Exists(denied)
           THEN Respond(p, req[p], denied.status, denied)
           ELSE Continue(p, "upd_write",
                         [website |-> website, updates |-> MetadataUpdates(req[p])])
  /\ UNCHANGED <<websites, versions, generationCache, timers, now, nextWebsiteId,
                 nextVersionId>>

\* a faulty updateWebsite that writes the whole website back, as it read it
UpdateWriteWhole(p) ==
  /\ pc[p] = "upd_write"
  /\ websites' = [websites EXCEPT ![req[p].website_id] =
                                   DbUpdate(loc[p].website, loc[p].updates)]
  /\ Respond(p, req[p], 200, [success |-> TRUE,
                      website |-> DbUpdate(loc[p].website, loc[p].updates)])
  /\ UNCHANGED <<versions, generationCache, timers, now, nextWebsiteId, nextVersionId>>

\* db.ref(websites/websiteId).update(updates)
UpdateWrite(p) ==
  /\ pc[p] = "upd_write"
  /\ websites' = [websites EXCEPT ![req[p].website_id] = DbUpdate(@, loc[p].updates)]
  /\ Respond(p, req[p], 200, [success |-> TRUE,
                      website |-> DbUpdate(loc[p].website, loc[p].updates)])
  /\ UNCHANGED <<versions, generationCache, timers, now, nextWebsiteId, nextVersionId>>

(***************************************************************************)
(* deleteWebsite and handleDeleteWebsite                                   *)
(***************************************************************************)
DeleteRequests ==
  {[op |-> "delete"] @@ w @@ u :
     w \in Opt("website_id", KnownIds), u \in {[user_id |-> x] : x \in RequestUsers}}

StartDelete(p) ==
  /\ Ready(p)
  /\ \E r \in DeleteRequests :
       IF ~Has(r, "website_id")
         THEN Respond(p, r, 400, Failure(<<"Website ID and User ID are required">>))
         ELSE Begin(p, r, "del_read", NoRec)
  /\ UNCHANGED <<websites, versions, generationCache, timers, now, nextWebsiteId,
                 nextVersionId>>

\* getWebsiteById and the owner check
DeleteRead(p) ==
  /\ pc[p] = "del_read"
  /\ LET denied == OwnerCheck(getWebsiteById(req[p].website_id), req[p].user_id)
     IN  IF Exists(denied)
           THEN Respond(p, req[p], denied.status, denied)
           ELSE Continue(p, "del_removeW", NoRec)
  /\ UNCHANGED <<websites, versions, generationCache, timers, now, nextWebsiteId,
                 nextVersionId>>

\* db.ref(websites/websiteId).remove()
DeleteRemoveWebsite(p) ==
  /\ pc[p] = "del_removeW"
  /\ websites' = [websites EXCEPT ![req[p].website_id] = NoRec]
  /\ Continue(p, "del_query", NoRec)
  /\ UNCHANGED <<versions, generationCache, timers, now, nextWebsiteId, nextVersionId>>

DeleteResponse == [success |-> TRUE, message |-> <<"Website deleted successfully">>]

\* a faulty deleteWebsite that leaves the versions where they are
DeleteQueryNoCascade(p) ==
  /\ pc[p] = "del_query"
  /\ Respond(p, req[p], 200, DeleteResponse)
  /\ UNCHANGED <<websites, versions, generationCache, timers, now, nextWebsiteId,
                 nextVersionId>>

\* orderByChild('website_id').equalTo(websiteId).once('value')
DeleteQuery(p) ==
  /\ pc[p] = "del_query"
  /\ IF VersionsOf(req[p].website_id) = {}
       THEN Respond(p, req[p], 200, DeleteResponse)
       ELSE Continue(p, "del_removeV", [pending |-> VersionsOf(req[p].website_id)])
  /\ UNCHANGED <<websites, versions, generationCache, timers, now, nextWebsiteId,
                 nextVersionId>>

\* one of the removes of Promise.all takes effect (they were issued in key order)
DeleteRemoveVersion(p) ==
  /\ pc[p] = "del_removeV"
  /\ LET v == CHOOSE x \in loc[p].pending : \A y \in loc[p].pending : x <= y
     IN  /\ versions' = [versions EXCEPT ![v] = NoRec]
         /\ IF loc[p].pending = {v}
              THEN Respond(p, req[p], 200, DeleteResponse)
              ELSE Continue(p, "del_removeV", [pending |-> loc[p].pending \ {v}])
  /\ UNCHANGED <<websites, generationCache, timers, now, nextWebsiteId, nextVersionId>>

\* the errors a rejected database operation carries
DatabaseErrors == {<<"Database unavailable">>}

\* the versions query rejects: deleteWebsite throws, handleDeleteWebsite answers 500
DeleteQueryFails(p) ==
  /\ pc[p] = "del_query"
  /\ \E e \in DatabaseErrors : Respond(p, req[p], 500, Failure(e))
  /\ UNCHANGED <<websites, versions, generationCache, timers, now, nextWebsiteId,
                 nextVersionId>>

\* one of the removes of Promise.all rejects: deleteWebsite throws; the other
\* removes were issued with it, and any of them may have taken effect
DeleteRemoveFails(p) ==
  /\ pc[p] = "del_removeV"
  /\ \E removed \in SUBSET loc[p].pending :
       /\ removed # loc[p].pending
       /\ versions' = [v \in VersionIds |-> IF v \in removed THEN NoRec ELSE versions[v]]
  /\ \E e \in DatabaseErrors : Respond(p, req[p], 500, Failure(e))
  /\ UNCHANGED <<websites, generationCache, timers, now, nextWebsiteId, nextVersionId>>

(***************************************************************************)
(* editWebsite and handleEdit                                              *)
(***************************************************************************)
EditRequests ==
  {[op |-> "edit", is_major_edit |-> m] @@ w @@ u @@ e :
     m \in BOOLEAN, w \in Opt("website_id", KnownIds),
     u \in {[user_id |-> x] : x \in RequestUsers},
     e \in {[edit_prompt |-> x] : x \in EditPrompts}}

\* the prompt editWebsite sends to generateHtmlCode
combinedPrompt(latestVersion, r) ==
  <<"Original Prompt: ">> \o latestVersion.prompt
    \o <<"Original Type: ">> \o latestVersion.type
    \o <<"Edit Request: ">> \o r.edit_prompt
    \o <<"Please modify the following HTML according to the edit request: ">>
    \o latestVersion.html

\* the version number of the new version
NextVersionNumber(latestVersion, r) ==
  IF r.is_major_edit
    THEN DblFloorPlusOne(latestVersion.version_number)
    ELSE DblAdd(latestVersion.version_number, DblTenth)

\* a faulty editWebsite that names the new version as its own parent
EditedVersionOwnParent(versionId, latestVersion, r, html, timestamp) ==
  [version_id |-> versionId,
   website_id |-> r.website_id,
   user_id |-> r.user_id,
   html |-> html,
   prompt |-> latestVersion.prompt,
   edit_prompt |-> r.edit_prompt,
   type |-> latestVersion.type,
   is_initial |-> FALSE,
   version_number |-> NextVersionNumber(latestVersion, r),
   parent_version_id |-> versionId,
   created_at |-> timestamp,
   updated_at |-> timestamp,
   view_count |-> 0,
   fork_count |-> 0]

\* the version object editWebsite builds
EditedVersion(versionId, latestVersion, r, html, timestamp) ==
  [version_id |-> versionId,
   website_id |-> r.website_id,
   user_id |-> r.user_id,
   html |-> html,
   prompt |-> latestVersion.prompt,
   edit_prompt |-> r.edit_prompt,
   type |-> latestVersion.type,
   is_initial |-> FALSE,
   version_number |-> NextVersionNumber(latestVersion, r),
   parent_version_id |-> latestVersion.version_id,
   created_at |-> timestamp,
   updated_at |-> timestamp,
   view_count |-> 0,
   fork_count |-> 0]

\* a faulty editWebsite that writes the version count back as it read it
EditUpdatesKeepCount(website, newVersion) ==
  [latest_version_id |-> newVersion.version_id,
   total_versions |-> website.total_versions,
   total_edits |-> (IF Has(website, "total_edits") THEN website.total_edits ELSE 0) + 1,
   updated_at |-> newVersion.created_at]

\* the updates editWebsite writes to the website, from the website it read
EditUpdates(website, newVersion) ==
  [latest_version_id |-> newVersion.version_id,
   total_versions |-> website.total_versions + 1,
   total_edits |-> (IF Has(website, "total_edits") THEN website.total_edits ELSE 0) + 1,
   updated_at |-> newVersion.created_at]

\* the body handleEdit answers with
EditResponse(website, newVersion) ==
  [success |-> TRUE,
   website |-> Pick([latest_version_id |-> newVersion.version_id] @@ website,
                    {"website_id", "project_name", "latest_version_id",
                     "total_versions", "total_edits"}),
   version |-> Pick(newVersion, {"version_id", "version_number", "edit_prompt",
                                 "parent_version_id"}),
   html |-> newVersion.html]

StartEdit(p, B) ==
  /\ Ready(p)
  /\ VersionIdLeft(B)
  /\ \E r \in EditRequests :
       IF ~Has(r, "website_id")
         THEN Respond(p, r, 400, Failure(<<"Website ID, User ID, and Edit Prompt are required">>))
         ELSE Begin(p, r, "edit_read", NoRec)
  /\ UNCHANGED <<websites, versions, generationCache, timers, now, nextWebsiteId,
                 nextVersionId>>

\* getWebsiteById and the owner check
EditRead(p) ==
  /\ pc[p] = "edit_read"
  /\ LET website == getWebsiteById(req[p].website_id)
         denied  == OwnerCheck(website, req[p].user_id)
     IN  IF Exists(denied)
           THEN Respond(p, req[p], denied.status, denied)
           ELSE Continue(p, "edit_readV", [website |-> website])
  /\ UNCHANGED <<websites, versions, generationCache, timers, now, nextWebsiteId,
                 nextVersionId>>

\* editWebsite once it has the html: the new id, the timestamp, the new version
EditLocals(website, latestVersion, r, html) ==
  [website |-> website,
   newVersion |-> EditedVersion(nextVersionId, latestVersion, r, html, now)]

\* getVersionById(website.latest_version_id), then generateHtmlCode up to its await
EditReadVersion(p) ==
  /\ pc[p] = "edit_readV"
  /\ LET latestVersion == getVersionById(loc[p].website.latest_version_id)
         key == cacheKey(combinedPrompt(latestVersion, req[p]), latestVersion.type)
     IN  IF ~Exists(latestVersion)
           THEN /\ Respond(p, req[p], 500, Failure(<<"No version found for website">>))
                /\ UNCHANGED nextVersionId
         ELSE IF Has(generationCache, key)
           THEN /\ Continue(p, "edit_setV",
                            EditLocals(loc[p].website, latestVersion, req[p],
                                       generationCache[key]))
                /\ nextVersionId' = nextVersionId + 1
         ELSE /\ Continue(p, "edit_gen", [latestVersion |-> latestVersion] @@ loc[p])
              /\ UNCHANGED nextVersionId
  /\ UNCHANGED <<websites, versions, generationCache, timers, now, nextWebsiteId>>

\* a faulty edit that counts the attempt in total_edits before it has the html
EditGenCountsAttempt(p) ==
  /\ pc[p] = "edit_gen"
  /\ LET prompt == combinedPrompt(loc[p].latestVersion, req[p])
         type   == loc[p].latestVersion.type
     IN  \/ \E e \in GeneratorErrors :
              /\ Respond(p, req[p], 500, Failure(e))
              /\ UNCHANGED <<generationCache, timers, nextVersionId>>
         \/ \E text \in GeneratorTexts(fullPrompt(prompt, type)) :
              IF text = <<>>
                THEN /\ Respond(p, req[p], 500, Failure(<<"No content generated.">>))
                     /\ UNCHANGED <<generationCache, timers, nextVersionId>>
                ELSE /\ CacheStore(cacheKey(prompt, type), StripFence(text))
                     /\ Continue(p, "edit_setV",
                                 EditLocals(loc[p].website, loc[p].latestVersion, req[p],
                                            StripFence(text)))
                     /\ nextVersionId' = nextVersionId + 1
  /\ websites' = [websites EXCEPT ![req[p].website_id] =
                    DbUpdate(@, [total_edits |-> loc[p].website.total_edits + 1])]
  /\ UNCHANGED <<versions, now, nextWebsiteId>>

\* the generator answers the edit's call
EditGen(p) ==
  /\ pc[p] = "edit_gen"
  /\ LET prompt == combinedPrompt(loc[p].latestVersion, req[p])
         type   == loc[p].latestVersion.type
     IN  \/ \E e \in GeneratorErrors :
              /\ Respond(p, req[p], 500, Failure(e))
              /\ UNCHANGED <<generationCache, timers, nextVersionId>>
         \/ \E text \in GeneratorTexts(fullPrompt(prompt, type)) :
              IF text = <<>>
                THEN /\ Respond(p, req[p], 500, Failure(<<"No content generated.">>))
                     /\ UNCHANGED <<generationCache, timers, nextVersionId>>
                ELSE /\ CacheStore(cacheKey(prompt, type), StripFence(text))
                     /\ Continue(p, "edit_setV",
                                 EditLocals(loc[p].website, loc[p].latestVersion, req[p],
                                            StripFence(text)))
                     /\ nextVersionId' = nextVersionId + 1
  /\ UNCHANGED <<websites, versions, now, nextWebsiteId>>

\* a faulty editWebsite that writes the new version over the one it edits
EditSetVersionInPlace(p) ==
  /\ pc[p] = "edit_setV"
  /\ versions' = [versions EXCEPT ![loc[p].newVersion.parent_version_id] = loc[p].newVersion]
  /\ Continue(p, "edit_updW", loc[p])
  /\ UNCHANGED <<websites, generationCache, timers, now, nextWebsiteId, nextVersionId>>

\* db.ref(website_versions/newVersionId).set(newVersion)
EditSetVersion(p) ==
  /\ pc[p] = "edit_setV"
  /\ versions' = [versions EXCEPT ![loc[p].newVersion.version_id] = loc[p].newVersion]
  /\ Continue(p, "edit_updW", loc[p])
  /\ UNCHANGED <<websites, generationCache, timers, now, nextWebsiteId, nextVersionId>>

\* db.ref(websites/websiteId).update({latest_version_id, total_versions, ...})
EditUpdateWebsite(p) ==
  /\ pc[p] = "edit_updW"
  /\ websites' = [websites EXCEPT ![req[p].website_id] =
                    DbUpdate(@, EditUpdates(loc[p].website, loc[p].newVersion))]
  /\ Respond(p, req[p], 200, EditResponse(loc[p].website, loc[p].newVersion))
  /\ UNCHANGED <<versions, generationCache, timers, now, nextWebsiteId, nextVersionId>>

(***************************************************************************)
(* forkWebsite and handleFork                                              *)
(***************************************************************************)
ForkRequests ==
  {[op |-> "fork"] @@ w @@ u @@ pub :
     w \in Opt("website_id", KnownIds), u \in {[user_id |-> x] : x \in RequestUsers \cup {"u9"}},
     pub \in Opt("is_public", {TRUE})}

\* a faulty forkWebsite that leaves the fork with the owner of the original
ForkedWebsiteOfOwner(websiteId, versionId, originalWebsite, r, timestamp) ==
  WithOpt([website_id |-> websiteId,
           user_id |-> originalWebsite.user_id,
           project_name |-> <<"Fork of ">> \o originalWebsite.project_name,
           description |-> originalWebsite.description,
           type |-> originalWebsite.type,
           is_public |-> IF Has(r, "is_public") THEN r.is_public ELSE FALSE,
           is_fork |-> TRUE,
           original_website_id |-> r.website_id,
           original_user_id |-> originalWebsite.user_id,
           total_versions |-> 1,
           latest_version_id |-> versionId,
           total_edits |-> 0,
           total_views |-> 0,
           total_forks |-> 0,
           created_at |-> timestamp,
           updated_at |-> timestamp], "tags", originalWebsite)

\* the website object forkWebsite builds
ForkedWebsite(websiteId, versionId, originalWebsite, r, timestamp) ==
  WithOpt([website_id |-> websiteId,
           user_id |-> r.user_id,
           project_name |-> IF Has(r, "project_name") THEN r.project_name
                            ELSE <<"Fork of ">> \o originalWebsite.project_name,
           description |-> originalWebsite.description,
           type |-> originalWebsite.type,
           is_public |-> IF Has(r, "is_public") THEN r.is_public ELSE FALSE,
           is_fork |-> TRUE,
           original_website_id |-> r.website_id,
           original_user_id |-> originalWebsite.user_id,
           total_versions |-> 1,
           latest_version_id |-> versionId,
           total_edits |-> 0,
           total_views |-> 0,
           total_forks |-> 0,
           created_at |-> timestamp,
           updated_at |-> timestamp], "tags", originalWebsite)

\* a faulty forkWebsite that carries the version number of the original over
ForkedVersionKeepNumber(websiteId, versionId, latestVersion, r, timestamp) ==
  [version_id |-> versionId,
   website_id |-> websiteId,
   user_id |-> r.user_id,
   html |-> latestVersion.html,
   prompt |-> latestVersion.prompt,
   type |-> latestVersion.type,
   is_initial |-> TRUE,
   version_number |-> latestVersion.version_number,
   parent_version_id |-> latestVersion.version_id,
   is_fork |-> TRUE,
   created_at |-> timestamp,
   updated_at |-> timestamp,
   view_count |-> 0,
   fork_count |-> 0]

\* the version object forkWebsite builds (edit_prompt is null)
ForkedVersion(websiteId, versionId, latestVersion, r, timestamp) ==
  [version_id |-> versionId,
   website_id |-> websiteId,
   user_id |-> r.user_id,
   html |-> latestVersion.html,
   prompt |-> latestVersion.prompt,
   type |-> latestVersion.type,
   is_initial |-> TRUE,
   version_number |-> DblOfTenths(10),
   parent_version_id |-> latestVersion.version_id,
   is_fork |-> TRUE,
   created_at |-> timestamp,
   updated_at |-> timestamp,
   view_count |-> 0,
   fork_count |-> 0]

\* a faulty forkWebsite that also counts the fork as a view of the original
ForkUpdatesAndViews(originalWebsite, timestamp) ==
  [total_forks |-> (IF Has(originalWebsite, "total_forks")
                      THEN originalWebsite.total_forks ELSE 0) + 1,
   total_views |-> (IF Has(originalWebsite, "total_views")
                      THEN originalWebsite.total_views ELSE 0) + 1,
   updated_at |-> timestamp]

\* the updates forkWebsite writes to the original website, from the website it read
ForkUpdates(originalWebsite, timestamp) ==
  [total_forks |-> (IF Has(originalWebsite, "total_forks")
                      THEN originalWebsite.total_forks ELSE 0) + 1,
   updated_at |-> timestamp]

\* the body handleFork answers with
ForkResponse(l) ==
  [success |-> TRUE,
   website |-> [is_fork |-> TRUE] @@
               Pick(l.newWebsite, {"website_id", "project_name", "is_public",
                                   "original_website_id", "original_user_id"}),
   version |-> [is_fork |-> TRUE] @@
               Pick(l.newVersion, {"version_id", "parent_version_id"}),
   html |-> l.newVersion.html]

StartFork(p, B) ==
  /\ Ready(p)
  /\ WebsiteIdLeft(B) /\ VersionIdLeft(B)
  /\ \E r \in ForkRequests :
       IF ~Has(r, "website_id")
         THEN Respond(p, r, 400, Failure(<<"Website ID and User ID are required">>))
       ELSE IF ~validateUserExistence(r.user_id)
         THEN Respond(p, r, 400, Failure(<<"User does not exist">>))
       ELSE Begin(p, r, "fork_read", NoRec)
  /\ UNCHANGED <<websites, versions, generationCache, timers, now, nextWebsiteId,
                 nextVersionId>>

\* a faulty forkWebsite that does not look at the visibility of the original
ForkCheckExistsOnly(originalWebsite) ==
  IF ~Exists(originalWebsite)
    THEN [status |-> 404] @@ Failure(<<"Original website not found">>)
  ELSE NoRec

\* what forkWebsite decides once it has the original website: an error, or NoRec to go on
ForkCheck(originalWebsite) ==
  IF ~Exists(originalWebsite)
    THEN [status |-> 404] @@ Failure(<<"Original website not found">>)
  ELSE IF ~(Has(originalWebsite, "is_public") /\ originalWebsite.is_public)
    THEN [status |-> 403] @@ Failure(<<"Cannot fork private websites">>)
  ELSE NoRec

\* getWebsiteById(originalWebsiteId) and the visibility check
ForkRead(p) ==
  /\ pc[p] = "fork_read"
  /\ LET originalWebsite == getWebsiteById(req[p].website_id)
         denied == ForkCheck(originalWebsite)
     IN  IF Exists(denied)
           THEN Respond(p, req[p], denied.status, denied)
           ELSE Continue(p, "fork_readV", [originalWebsite |-> originalWebsite])
  /\ UNCHANGED <<websites, versions, generationCache, timers, now, nextWebsiteId,
                 nextVersionId>>

\* getVersionById(originalWebsite.latest_version_id), then the ids and the two objects
ForkReadVersion(p) ==
  /\ pc[p] = "fork_readV"
  /\ LET latestVersion == getVersionById(loc[p].originalWebsite.latest_version_id)
     IN  IF ~Exists(latestVersion)
           THEN /\ Respond(p, req[p], 500, Failure(<<"No version found for website">>))
                /\ UNCHANGED <<nextWebsiteId, nextVersionId>>
           ELSE /\ Continue(p, "fork_setW",
                     [originalWebsite |-> loc[p].originalWebsite,
                      latestVersion |-> latestVersion,
                      newWebsite |-> ForkedWebsite(nextWebsiteId, nextVersionId,
                                       loc[p].originalWebsite, req[p], now),
                      newVersion |-> ForkedVersion(nextWebsiteId, nextVersionId,
                                       latestVersion, req[p], now)])
                /\ nextWebsiteId' = nextWebsiteId + 1
                /\ nextVersionId' = nextVersionId + 1
  /\ UNCHANGED <<websites, versions, generationCache, timers, now>>

\* db.ref(websites/newWebsiteId).set(newWebsite)
ForkSetWebsite(p) ==
  /\ pc[p] = "fork_setW"
  /\ websites' = [websites EXCEPT ![loc[p].newWebsite.website_id] = loc[p].newWebsite]
  /\ Continue(p, "fork_setV", loc[p])
  /\ UNCHANGED <<versions, generationCache, timers, now, nextWebsiteId, nextVersionId>>

\* db.ref(website_versions/newVersionId).set(newVersion)
ForkSetVersion(p) ==
  /\ pc[p] = "fork_setV"
  /\ versions' = [versions EXCEPT ![loc[p].newVersion.version_id] = loc[p].newVersion]
  /\ Continue(p, "fork_updW", loc[p])
  /\ UNCHANGED <<websites, generationCache, timers, now, nextWebsiteId, nextVersionId>>

\* db.ref(websites/originalWebsiteId).update({total_forks, updated_at})
ForkUpdateOriginal(p) ==
  /\ pc[p] = "fork_updW"
  /\ websites' = [websites EXCEPT ![req[p].website_id] =
                    DbUpdate(@, ForkUpdates(loc[p].originalWebsite,
                                            loc[p].newWebsite.created_at))]
  /\ Respond(p, req[p], 201, ForkResponse(loc[p]))
  /\ UNCHANGED <<versions, generationCache, timers, now, nextWebsiteId, nextVersionId>>

(***************************************************************************)
(* The requests of one process, and the specifications.                    *)
(***************************************************************************)
CreateStep(p, B) ==
  \/ StartCreate(p, B)
  \/ CreateGen(p)
  \/ CreateSetWebsite(p)
  \/ CreateSetVersion(p)
  \/ CreateTrackRead(p)
  \/ CreateTrackWrite(p)

EditStep(p, B) ==
  \/ StartEdit(p, B)
  \/ EditRead(p)
  \/ EditReadVersion(p)
  \/ EditGen(p)
  \/ EditSetVersion(p)
  \/ EditUpdateWebsite(p)

ForkStep(p, B) ==
  \/ StartFork(p, B)
  \/ ForkRead(p)
  \/ ForkReadVersion(p)
  \/ ForkSetWebsite(p)
  \/ ForkSetVersion(p)
  \/ ForkUpdateOriginal(p)

GetStep(p, B) ==
  \/ StartGet(p, B)
  \/ GetRead(p)
  \/ GetReadVersion(p)
  \/ GetTrackRead(p)
  \/ GetTrackWrite(p)

VersionsStep(p) ==
  \/ StartVersions(p)
  \/ VersionsRead(p)
  \/ VersionsQuery(p)

UpdateStep(p) ==
  \/ StartUpdate(p)
  \/ UpdateRead(p)
  \/ UpdateWrite(p)

DeleteStep(p) ==
  \/ StartDelete(p)
  \/ DeleteRead(p)
  \/ DeleteRemoveWebsite(p)
  \/ DeleteQuery(p)
  \/ DeleteRemoveVersion(p)

Step(p, B) ==
  \/ CreateStep(p, B)
  \/ EditStep(p, B)
  \/ ForkStep(p, B)
  \/ GetStep(p, B)
  \/ VersionsStep(p)
  \/ UpdateStep(p)
  \/ DeleteStep(p)
  \/ Finish(p)

\* a delete of process p is cut short by the database
DeleteFails(p) == DeleteQueryFails(p) \/ DeleteRemoveFails(p)

\* requests overlap freely
Next ==
  \/ \E p \in Procs :
       \/ Step(p, SeqBounds) \/ DeleteFails(p)
       \/ GenerateStep(p) \/ ListStep(p) \/ VariationsStep(p)
       \/ StartForkedFrom(p) \/ ForkedFromQuery(p)
  \/ Tick
  \/ CacheEvict

Spec == Init /\ [][Next]_vars

\* one request at a time: each completes before the next starts
SeqNext == Step("P1", SeqBounds) \/ Tick \/ CacheEvict

SeqSpec == Init /\ [][SeqNext]_vars

\* one request at a time, of creates, edits and deletes, with a database that
\* may reject the operations of a delete that follow the removal of the website
RetryNext ==
  \/ CreateStep("P1", SeqBounds)
  \/ EditStep("P1", SeqBounds)
  \/ DeleteStep("P1")
  \/ DeleteFails("P1")
  \/ Finish("P1")

RetrySpec == Init /\ [][RetryNext]_vars

\* creates, edits, forks and deletes of two callers overlap, within the race budget
RaceNext ==
  \E p \in Procs :
    \/ CreateStep(p, RaceBounds)
    \/ EditStep(p, RaceBounds)
    \/ ForkStep(p, RaceBounds)
    \/ DeleteStep(p)
    \/ Finish(p)

RaceSpec == Init /\ [][RaceNext]_vars

\* gets, creates, edits and forks of two callers overlap, within the counter budget
CounterNext ==
  \E p \in Procs :
    \/ GetStep(p, CounterBounds)
    \/ CreateStep(p, CounterBounds)
    \/ EditStep(p, CounterBounds)
    \/ ForkStep(p, CounterBounds)
    \/ Finish(p)

CounterSpec == Init /\ [][CounterNext]_vars

\* one caller creates websites; the forks and the gets of two callers overlap
OverlapNext ==
  \/ CreateStep("P1", OverlapBounds)
  \/ \E p \in Procs :
       \/ ForkStep(p, OverlapBounds)
       \/ GetStep(p, OverlapBounds)
       \/ Finish(p)

OverlapSpec == Init /\ [][OverlapNext]_vars

\* the generate requests of two callers overlap, while time passes and the
\* eviction timers run
CacheNext ==
  \/ \E p \in Procs : GenerateStep(p) \/ Finish(p)
  \/ Advance(CacheTime)
  \/ CacheEvict

CacheSpec == Init /\ [][CacheNext]_vars

\* the generate requests of one caller, one after the other, with prompts and
\* types that have the separator of the cache key in them
KeyNext ==
  \/ GenerateFrom("P1", KeyRequests) \/ GenerateGen("P1") \/ Finish("P1")
  \/ Advance(CacheTime)
  \/ CacheEvict

KeySpec == Init /\ [][KeyNext]_vars

\* one request at a time, of creates, metadata updates, deletes and listings
ListNext ==
  \/ CreateStep("P1", ListBounds)
  \/ UpdateStep("P1")
  \/ DeleteStep("P1")
  \/ ListStep("P1")
  \/ Finish("P1")
  \/ Advance(ListTime)

ListSpec == Init /\ [][ListNext]_vars

\* one request at a time, of generate and variations requests
VariationNext ==
  \/ GenerateStep("P1")
  \/ VariationsStep("P1")
  \/ Finish("P1")

VariationSpec == Init /\ [][VariationNext]_vars

\* the awaits of generateContent: what a request waits for there is the generator
AwaitingGenerator == {"create_gen", "edit_gen", "gen_gen", "var_gen"}

\* one request at a time, of those that call the generator
HangNext ==
  \/ CreateStep("P1", HangBounds)
  \/ EditStep("P1", HangBounds)
  \/ GenerateStep("P1")
  \/ VariationsStep("P1")
  \/ Finish("P1")

\* the steps of a request other than the answers of the generator: the database
\* and the event loop see to it that they are taken; no such promise holds for
\* the generator
HandlerProgress ==
  /\ pc["P1"] \notin AwaitingGenerator \cup {"idle", "done"}
  /\ HangNext

HangSpec == Init /\ [][HangNext]_vars /\ WF_vars(HandlerProgress)

\* one request at a time, of creates, forks and the reads of websites and of
\* their forks, within the race budget
ReadNext ==
  \/ CreateStep("P1", RaceBounds)
  \/ ForkStep("P1", RaceBounds)
  \/ GetStep("P1", RaceBounds)
  \/ StartForkedFrom("P1")
  \/ ForkedFromQuery("P1")
  \/ Finish("P1")

ReadSpec == Init /\ [][ReadNext]_vars

\* the updates of one caller overlap the creates, edits and gets of another; a
\* get that an update lets through counts its view within the budget as well
MetaNext ==
  \/ CreateStep("P1", MetaBounds)
  \/ EditStep("P1", MetaBounds)
  \/ /\ GetStep("P1", MetaBounds)
     /\ \A w \in WebsiteIds :
          Has(websites'[w], "total_views") => websites'[w].total_views <= MetaViews
  \/ UpdateStep("P2")
  \/ \E p \in Procs : Finish(p)
  \/ Tick

MetaSpec == Init /\ [][MetaNext]_vars

(***************************************************************************)
(* Properties.                                                             *)
(***************************************************************************)
\* no request is in progress
Quiescent == \A p \in Procs : pc[p] \in {"idle", "done"}

\* process p has just answered a request of kind op with status
Answered(p, op, status) ==
  pc[p] = "done" /\ resp[p].request.op = op /\ resp[p].status = status

IsPublic(website) == Has(website, "is_public") /\ website.is_public

\* C1: in a sequential execution, whenever no request is in progress, every
\* stored website's total_versions equals the number of stored versions that
\* carry its website_id.
C1_VersionCount ==
  Quiescent =>
    \A w \in WebsiteIds :
      Exists(websites[w]) =>
        /\ Has(websites[w], "total_versions")
        /\ websites[w].total_versions = Cardinality(VersionsOf(w))

\* an edit has completed and its website holds two versions
C1_Witness ==
  /\ Answered("P1", "edit", 200)
  /\ LET w == resp["P1"].request.website_id
     IN  websites[w].total_versions = 2 /\ Cardinality(VersionsOf(w)) = 2

\* C2: when two successful edits of the same website overlap (both started from
\* the same latest version), both new versions are stored and total_versions and
\* total_edits have each grown by exactly 2.
C2_OverlappingEdits ==
  (/\ Answered("P1", "edit", 200)
   /\ Answered("P2", "edit", 200)
   /\ resp["P1"].request.website_id = resp["P2"].request.website_id
   /\ resp["P1"].version.parent_version_id = resp["P2"].version.parent_version_id)
  => LET w == resp["P1"].request.website_id
         before == resp["P1"].website
     IN  /\ Exists(versions[resp["P1"].version.version_id])
         /\ Exists(versions[resp["P2"].version.version_id])
         /\ websites[w].total_versions = before.total_versions + 2
         /\ websites[w].total_edits = before.total_edits + 2

\* C3: in every reachable state, every stored website's latest_version_id names
\* a stored version of that website.
C3_LatestVersionStored ==
  \A w \in WebsiteIds :
    Exists(websites[w]) =>
      /\ Has(websites[w], "latest_version_id")
      /\ websites[w].latest_version_id \in VersionsOf(w)

\* C4: when a delete of a website overlaps an edit or a fork of it, then once the
\* delete has succeeded and both requests have completed, no stored version
\* carries the deleted website's id.
C4_NoVersionOfDeleted ==
  \A p, q \in Procs :
    (/\ Answered(p, "delete", 200)
     /\ (Answered(q, "edit", 200) \/ Answered(q, "fork", 201))
     /\ resp[q].request.website_id = resp[p].request.website_id)
    => VersionsOf(resp[p].request.website_id) = {}

\* the caller of request r may not read the stored website w
DeniedTo(w, r) ==
  /\ w \in WebsiteIds
  /\ Exists(websites[w])
  /\ ~IsPublic(websites[w])
  /\ ~(Has(r, "user_id") /\ websites[w].user_id = r.user_id)

\* what the caller sees of a failure
Shape(response) == Pick(response, {"status", "success", "error"})

\* C5: a get of a private website by a caller who is not its owner (another
\* user, or none) is answered exactly as a get of an id that names no website:
\* same status, same success flag, same error.
C5_DeniedLooksMissing ==
  \A p \in Procs :
    (pc[p] = "done" /\ resp[p].request.op = "get"
       /\ DeniedTo(resp[p].request.website_id, resp[p].request))
      => Shape(resp[p]) = Shape(GetDecision(NoRec, resp[p].request))

\* C6: a fork of a stored private website fails for every caller, its owner
\* included: the request is answered 403 "Cannot fork private websites", and no
\* step of it changes the store (no website or version is added, the original
\* keeps its total_forks and updated_at) or draws an id.
C6_PrivateForkFails ==
  [][\A p \in Procs :
       /\ (Ready(p) /\ pc'[p] = "fork_read") =>
            <<websites, versions, nextWebsiteId, nextVersionId>>' =
              <<websites, versions, nextWebsiteId, nextVersionId>>
       /\ (/\ pc[p] = "fork_read" /\ pc'[p] # "fork_read"
           /\ Exists(getWebsiteById(req[p].website_id))
           /\ ~IsPublic(getWebsiteById(req[p].website_id))) =>
            /\ pc'[p] = "done"
            /\ Shape(resp'[p]) = [status |-> 403, success |-> FALSE,
                                  error |-> <<"Cannot fork private websites">>]
            /\ <<websites, versions, nextWebsiteId, nextVersionId>>' =
                 <<websites, versions, nextWebsiteId, nextVersionId>>]_vars

\* the owner of a private website has been refused a fork of it
C6_Witness ==
  /\ Answered("P1", "fork", 403)
  /\ LET w == websites[resp["P1"].request.website_id]
     IN  Exists(w) /\ ~IsPublic(w) /\ w.user_id = resp["P1"].request.user_id

\* the stored forks of website a
ForksOf(a) ==
  {b \in WebsiteIds : /\ Exists(websites[b])
                      /\ Has(websites[b], "original_website_id")
                      /\ websites[b].original_website_id = a}

\* C7: a successful fork of a public website a by user u, overlapped by no other
\* request, draws an id b that nothing stored carries, and ends with a stored
\* website b # a owned by u, marked is_fork, naming a and a's owner as its
\* origin, with total_versions 1 and total_edits 0 and exactly one stored
\* version; a's total_forks has grown by 1 and every other website is as it was
\* (so a repeated fork adds a further website and keeps the earlier one).
C7_ForkCreatesWebsite ==
  [][\A p \in Procs :
       /\ (pc[p] = "fork_readV" /\ pc'[p] = "fork_setW") =>
            LET b == loc'[p].newWebsite.website_id
            IN  /\ b \in WebsiteIds
                /\ ~Exists(websites[b])
                /\ VersionsOf(b) = {}
                /\ ForksOf(b) = {}
       /\ (pc[p] = "fork_updW" /\ pc'[p] = "done") =>
            LET a == req[p].website_id
                b == resp'[p].website.website_id
            IN  /\ resp'[p].status = 201
                /\ b # a
                /\ Exists(websites'[b])
                /\ websites'[b].website_id = b
                /\ websites'[b].user_id = req[p].user_id
                /\ websites'[b].is_fork
                /\ websites'[b].original_website_id = a
                /\ websites'[b].original_user_id = websites[a].user_id
                /\ websites'[b].total_versions = 1
                /\ websites'[b].total_edits = 0
                /\ VersionsOf(b) = {websites'[b].latest_version_id}
                /\ websites'[a].total_forks = websites[a].total_forks + 1
                /\ \A w \in WebsiteIds \ {a} : websites'[w] = websites[w]]_vars

\* a second fork of the same website has completed: two distinct forks are stored
C7_Witness ==
  /\ Answered("P1", "fork", 201)
  /\ LET a == resp["P1"].request.website_id
     IN  /\ Cardinality(ForksOf(a)) = 2
         /\ websites[a].total_forks = 2
         /\ resp["P1"].website.website_id \in ForksOf(a)
         /\ websites[resp["P1"].website.website_id].user_id = "u2"

\* C8: the initial version of a fork has the html and the type of the latest
\* version of the original as the fork read it, names that version as its
\* parent, is marked is_initial, has no edit_prompt and has version number 1.0,
\* whatever the version number of the original's latest version.
C8_ForkInitialVersion ==
  \A p \in Procs :
    Answered(p, "fork", 201) =>
      LET a == resp[p].request.website_id
          latestVersion == versions[websites[a].latest_version_id]
          newVersion == versions[resp[p].version.version_id]
      IN  /\ newVersion.website_id = resp[p].website.website_id
          /\ newVersion.html = latestVersion.html
          /\ newVersion.type = latestVersion.type
          /\ newVersion.parent_version_id = latestVersion.version_id
          /\ newVersion.is_initial
          /\ ~Has(newVersion, "edit_prompt")
          /\ newVersion.version_number = DblOfInt(1)

\* a website whose latest version is not 1.0 has been forked
C8_Witness ==
  /\ Answered("P1", "fork", 201)
  /\ LET a == resp["P1"].request.website_id
     IN  /\ versions[websites[a].latest_version_id].version_number # DblOfInt(1)
         /\ versions[resp["P1"].version.version_id].version_number = DblOfInt(1)

\* the original of the fork process p serves is stored as website a
ForkingFrom(p, a) ==
  /\ Has(req[p], "op") /\ req[p].op = "fork"
  /\ req[p].website_id = a
  /\ Exists(websites[a])

\* the step leaves every property of website a outside fields, and every
\* version of a, as it was
SourceFrame(a, fields) ==
  /\ DOMAIN websites'[a] = DOMAIN websites[a]
  /\ \A f \in DOMAIN websites[a] \ fields : websites'[a][f] = websites[a][f]
  /\ \A v \in VersionsOf(a) : versions'[v] = versions[v]

C10_VersionNumbers ==
  \A p \in Procs :
    Answered(p, "edit", 200) =>
      LET newVersion == versions[resp[p].version.version_id]
          parent == versions[newVersion.parent_version_id]
      IN  \A t \in 10..19 :
            parent.version_number = DblOfTenths(t) =>
              newVersion.version_number =
                IF resp[p].request.is_major_edit THEN DblOfInt(2)
                ELSE DblOfTenths(t + 1)

\* the steps of an edit before its first write
EditReading == {"edit_read", "edit_readV", "edit_gen"}

\* C11: a successful edit by the owner, overlapped by no other request, writes
\* nothing before it has the html; then stores one version under an id that held
\* nothing, of the edited website, not initial, whose parent is the website's
\* latest version so far, and leaves every other version as it was; then sets
\* the website's latest_version_id to the new version and raises total_versions
\* and total_edits by one each, leaving every version as it was.
C11_EditAppendsVersion ==
  [][\A p \in Procs :
       /\ (pc[p] \in EditReading /\ pc'[p] # pc[p]) =>
            websites' = websites /\ versions' = versions
       /\ (pc[p] = "edit_setV" /\ pc'[p] = "edit_updW") =>
            LET w == req[p].website_id
                n == loc[p].newVersion.version_id
            IN  /\ websites[w].user_id = req[p].user_id
                /\ ~Exists(versions[n])
                /\ versions'[n].version_id = n
                /\ versions'[n].website_id = w
                /\ versions'[n].parent_version_id = websites[w].latest_version_id
                /\ versions'[n].is_initial = FALSE
                /\ \A v \in VersionIds \ {n} : versions'[v] = versions[v]
                /\ websites' = websites
       /\ (pc[p] = "edit_updW" /\ pc'[p] = "done") =>
            LET w == req[p].website_id
                n == loc[p].newVersion.version_id
            IN  /\ resp'[p].status = 200
                /\ resp'[p].version.version_id = n
                /\ websites'[w].latest_version_id = n
                /\ websites'[w].total_versions = websites[w].total_versions + 1
                /\ websites'[w].total_edits = websites[w].total_edits + 1
                /\ VersionsOf(w) = {v \in VersionIds : Exists(versions'[v])
                                                      /\ versions'[v].website_id = w}
                /\ versions' = versions]_vars

\* a second edit of a website has completed: its three versions are stored, the
\* latest names the second as its parent, the second the first
C11_Witness ==
  /\ Answered("P1", "edit", 200)
  /\ LET w == resp["P1"].request.website_id
         n == websites[w].latest_version_id
     IN  /\ Cardinality(VersionsOf(w)) = 3
         /\ websites[w].total_edits = 2
         /\ n = resp["P1"].version.version_id
         /\ versions[versions[n].parent_version_id].parent_version_id \in VersionsOf(w)

\* the first read of edit, update and delete
OwnerOnlyReads == {"edit_read", "upd_read", "del_read"}

\* the step changes neither collection, nor the cache, and draws no id
StoreUntouched ==
  <<websites, versions, generationCache, timers, nextWebsiteId, nextVersionId>>' =
    <<websites, versions, generationCache, timers, nextWebsiteId, nextVersionId>>

\* C12: an edit, an update or a delete that finds no website under the id is
\* answered 404 "Website not found", and one whose user_id is not the stored
\* website's user_id is answered 403 "Unauthorized: You do not own this
\* website"; either way the request ends at that read, before any generator
\* call, and none of its steps has changed a website, a version, the cache or
\* the id counters.
C12_OwnerOnlyFailures ==
  [][\A p \in Procs :
       /\ (Ready(p) /\ pc'[p] \in OwnerOnlyReads) => StoreUntouched
       /\ (pc[p] \in OwnerOnlyReads /\ pc'[p] # pc[p]) =>
            LET website == getWebsiteById(req[p].website_id)
            IN  /\ ~Exists(website) =>
                     /\ pc'[p] = "done"
                     /\ Shape(resp'[p]) = [status |-> 404, success |-> FALSE,
                                           error |-> <<"Website not found">>]
                     /\ StoreUntouched
                /\ (/\ Exists(website)
                    /\ ~(Has(website, "user_id") /\ website.user_id = req[p].user_id)) =>
                     /\ pc'[p] = "done"
                     /\ Shape(resp'[p]) =
                          [status |-> 403, success |-> FALSE,
                           error |-> <<"Unauthorized: You do not own this website">>]
                     /\ StoreUntouched]_vars

\* an edit of a stored public website by a user who does not own it was refused
C12_Witness ==
  /\ Answered("P1", "edit", 403)
  /\ LET w == websites[resp["P1"].request.website_id]
     IN  Exists(w) /\ IsPublic(w) /\ w.user_id # resp["P1"].request.user_id

\* the request process p takes up in this step
TakenUp(p) == IF pc'[p] = "done" THEN resp'[p].request ELSE req'[p]

\* C13: a create whose user_id names no known user (or is missing), or whose
\* prompt is empty (or missing), is answered 400 with an error at once: the
\* generator is not called and the cache not consulted for it, no website and
\* no version is stored, and no id is drawn.
C13_CreateValidation ==
  [][\A p \in Procs :
       (/\ Ready(p) /\ pc'[p] # pc[p]
        /\ TakenUp(p).op = "create"
        /\ \/ ~(Has(TakenUp(p), "user_id") /\ TakenUp(p).user_id \in KnownUsers)
           \/ ~(Has(TakenUp(p), "prompt") /\ TakenUp(p).prompt # <<>>))
       => /\ pc'[p] = "done"
          /\ resp'[p].status = 400
          /\ resp'[p].success = FALSE
          /\ Has(resp'[p], "error")
          /\ StoreUntouched]_vars

\* a create in the name of an unknown user, with a prompt, has been refused
C13_Witness ==
  /\ Answered("P1", "create", 400)
  /\ Has(resp["P1"].request, "prompt") /\ resp["P1"].request.prompt # <<>>
  /\ Has(resp["P1"].request, "user_id")
  /\ resp["P1"].request.user_id \notin KnownUsers
  /\ resp["P1"].error = <<"User does not exist">>

\* what generateHtmlCode returns for a prompt and a type when it succeeds
GeneratedHtml(prompt, type) ==
  {StripFence(text) : text \in GeneratorTexts(fullPrompt(prompt, type)) \ {<<>>}}

\* C14: a successful create, overlapped by no other request, stores one
\* website under an id that held nothing and one version under an id that held
\* nothing, and changes no other website or version.  When it is answered 201
\* the version is the only version of the website, has version number 1.0, is
\* initial, has no parent_version_id and no edit_prompt, and holds the html
\* generated for the request's prompt; the website belongs to the request's
\* user, names that version as its latest, has total_versions 1 and
\* total_edits 0, and is public exactly when the request asked for it.
C14_CreateStoresOne ==
  [][\A p \in Procs :
       /\ (pc[p] = "create_setW" /\ pc'[p] # pc[p]) =>
            LET w == loc[p].website.website_id
            IN  /\ ~Exists(websites[w]) /\ VersionsOf(w) = {}
                /\ Exists(websites'[w])
                /\ \A x \in WebsiteIds \ {w} : websites'[x] = websites[x]
                /\ versions' = versions
       /\ (pc[p] = "create_setV" /\ pc'[p] # pc[p]) =>
            LET n == loc[p].version.version_id
            IN  /\ ~Exists(versions[n])
                /\ Exists(versions'[n])
                /\ \A x \in VersionIds \ {n} : versions'[x] = versions[x]
                /\ websites' = websites
       /\ (pc[p] \in {"create_tvRead", "create_tvWrite"} /\ pc'[p] # pc[p]) =>
            /\ versions' = versions
            /\ \A x \in WebsiteIds \ {loc[p].website.website_id} :
                 websites'[x] = websites[x]
       /\ (pc[p] \in {"create_tvRead", "create_tvWrite"} /\ pc'[p] = "done") =>
            LET w == resp'[p].website.website_id
                n == resp'[p].version.version_id
                website == websites'[w]
                version == versions'[n]
            IN  /\ resp'[p].status = 201
                /\ VersionsOf(w) = {n}
                /\ version.version_number = DblOfInt(1)
                /\ version.is_initial
                /\ ~Has(version, "parent_version_id")
                /\ ~Has(version, "edit_prompt")
                /\ version.html \in GeneratedHtml(req[p].prompt, TypeOf(req[p]))
                /\ version.html = resp'[p].html
                /\ website.user_id = req[p].user_id
                /\ website.latest_version_id = n
                /\ website.total_versions = 1
                /\ website.total_edits = 0
                /\ website.is_public = (Has(req[p], "is_public") /\ req[p].is_public)]_vars

\* a create that did not ask for a public website has completed, and the
\* website is stored private with its one version
C14_Witness ==
  /\ Answered("P1", "create", 201)
  /\ ~Has(resp["P1"].request, "is_public")
  /\ LET w == resp["P1"].website.website_id
     IN  /\ Exists(websites[w]) /\ ~websites[w].is_public
         /\ VersionsOf(w) = {resp["P1"].version.version_id}

\* the errors a failed generation ends a request with
GenerationFailures == GeneratorErrors \cup {<<"No content generated.">>}

\* C15: a create or an edit writes no website and no version before the
\* generator has answered; when the generator throws or answers with an empty
\* text the request is answered 500 with that error at that step, which leaves
\* the websites, the versions, the cache and the id counters as they were: the
\* store is as it was before the request.
C15_GenerationFailure ==
  [][\A p \in Procs :
       /\ (Ready(p) /\ pc'[p] \in {"create_gen", "edit_read"}) =>
            websites' = websites /\ versions' = versions
       /\ (pc[p] \in {"create_gen"} \cup EditReading /\ pc'[p] # pc[p]) =>
            websites' = websites /\ versions' = versions
       /\ (pc[p] \in {"create_gen", "edit_gen"} /\ pc'[p] = "done") =>
            /\ resp'[p].status = 500
            /\ resp'[p].success = FALSE
            /\ resp'[p].error \in GenerationFailures
            /\ StoreUntouched]_vars

\* the generator answered an edit with an empty text: the edit failed, and the
\* website still names its first version as the latest, with no edit counted
C15_Witness ==
  /\ Answered("P1", "edit", 500)
  /\ resp["P1"].error = <<"No content generated.">>
  /\ LET w == resp["P1"].request.website_id
     IN  /\ Cardinality(VersionsOf(w)) = 1
         /\ websites[w].latest_version_id \in VersionsOf(w)
         /\ websites[w].total_versions = 1 /\ websites[w].total_edits = 0

\* the steps of a delete after its owner check
Deleting == {"del_removeW", "del_query", "del_removeV"}

\* the ids that have been handed out and hold no website
Vacant == {w \in WebsiteIds : w < nextWebsiteId /\ ~Exists(websites[w])}

\* C16: a delete by the owner, overlapped by no other request, changes no
\* website but its own and no version but its own (forks of the website and
\* their versions stay), and when it is answered 200 the website is gone and no
\* stored version carries its id, however many it had.  Only a create or a fork
\* writing the website it drew an id for makes a website appear, and a get or
\* a versions listing of an id that holds no website is answered 404.
C16_DeleteCascade ==
  [][\A p \in Procs :
       /\ (pc[p] \in Deleting /\ pc'[p] # pc[p]) =>
            LET w == req[p].website_id
            IN  /\ \A x \in WebsiteIds \ {w} : websites'[x] = websites[x]
                /\ \A v \in VersionIds \ VersionsOf(w) : versions'[v] = versions[v]
                /\ pc'[p] = "done" =>
                     /\ resp'[p].status = 200
                     /\ ~Exists(websites'[w])
                     /\ \A v \in VersionIds :
                          Exists(versions'[v]) => versions'[v].website_id # w
       /\ \A w \in Vacant :
            Exists(websites'[w]) =>
              \E q \in Procs :
                \/ pc[q] = "create_setW" /\ loc[q].website.website_id = w
                \/ pc[q] = "fork_setW" /\ loc[q].newWebsite.website_id = w
       /\ (/\ pc[p] \in {"get_read", "ver_read"} /\ pc'[p] # pc[p]
           /\ req[p].website_id \in Vacant) =>
            /\ pc'[p] = "done"
            /\ Shape(resp'[p]) = [status |-> 404, success |-> FALSE,
                                  error |-> <<"Website not found">>]]_vars

\* a website with two versions and a fork has been deleted: of the three
\* versions ever stored only the fork's is left, and the fork is still stored
C16_Witness ==
  /\ Answered("P1", "delete", 200)
  /\ LET w == resp["P1"].request.website_id
     IN  /\ ~Exists(websites[w]) /\ VersionsOf(w) = {}
         /\ nextVersionId = 4
         /\ \E b \in ForksOf(w) : Cardinality(VersionsOf(b)) = 1

\* C17: when the website record of id w is gone and versions of w are still
\* stored (a delete was cut short after its first remove), the delete of w
\* repeated by the user the versions belong to does not end at its first read:
\* it goes on to remove the versions that are left, and is not answered with an
\* error.
C17_DeleteResumes ==
  [][\A p \in Procs :
       (/\ pc[p] = "del_read" /\ pc'[p] # pc[p]
        /\ req[p].website_id \in Vacant
        /\ VersionsOf(req[p].website_id) # {}
        /\ \A v \in VersionsOf(req[p].website_id) : versions[v].user_id = req[p].user_id)
       => /\ pc'[p] \in Deleting
          /\ ~(pc'[p] = "done" /\ resp'[p].status # 200)]_vars

\* the stored versions of website w that are marked initial
InitialVersionsOf(w) == {v \in VersionsOf(w) : versions[v].is_initial}

\* C18: whenever no request is in progress, every stored website has exactly
\* one stored version marked is_initial (the one its create or fork wrote).
C18_OneInitialVersion ==
  Quiescent =>
    \A w \in WebsiteIds :
      Exists(websites[w]) => Cardinality(InitialVersionsOf(w)) = 1

\* the counters of a website record
Counters == {"total_views", "total_forks", "total_versions"}

\* C19: while gets, creates, edits and forks interleave, no step lowers
\* total_views, total_forks or total_versions of a website that is stored
\* before and after the step.
C19_CountersNeverDecrease ==
  [][\A w \in WebsiteIds :
       (Exists(websites[w]) /\ Exists(websites'[w])) =>
         \A f \in Counters \cap DOMAIN websites[w] :
           /\ Has(websites'[w], f)
           /\ websites'[w][f] >= websites[w][f]]_vars

\* C20: when two forks of the same website have both been answered 201, the
\* two new websites are stored and the original's total_forks is the number of
\* its stored forks, also when the two requests overlapped; when two gets of
\* the same website that both read total_views = k (so neither had written
\* when the other read: they overlapped) have both been answered 200,
\* total_views is k + 2.
C20_OverlappingCounts ==
  LET a == resp["P1"].request.website_id
  IN  /\ (/\ Answered("P1", "fork", 201) /\ Answered("P2", "fork", 201)
          /\ resp["P2"].request.website_id = a) =>
           /\ resp["P1"].website.website_id # resp["P2"].website.website_id
           /\ {resp["P1"].website.website_id, resp["P2"].website.website_id}
                \subseteq ForksOf(a)
           /\ websites[a].total_forks = Cardinality(ForksOf(a))
      /\ (/\ Answered("P1", "get", 200) /\ Answered("P2", "get", 200)
          /\ resp["P2"].request.website_id = a
          /\ resp["P1"].website.total_views = resp["P2"].website.total_views) =>
           websites[a].total_views = resp["P1"].website.total_views + 2

\* the keys stored less than CACHE_TTL_MS ago: their eviction is not due yet
FreshKeys == {t.key : t \in {x \in timers : x.due > now}}

\* the keys whose every store is more than CACHE_TTL_MS old
Expired(key) == \A t \in timers : t.key = key => t.due < now

\* C21: while the entry a successful generation stored for a prompt and a type
\* has not expired (it was stored less than CACHE_TTL_MS ago), it is in the
\* cache, so that a later request with the same prompt and type finds it and
\* is served from it without a call of the generator.
C21_FreshEntryServed ==
  \A key \in FreshKeys : Has(generationCache, key)

\* C22: a request is served from the cache only by an entry that is not
\* expired: when every store of its key is more than CACHE_TTL_MS old, the
\* request goes to the generator instead, whatever the order of the lookups,
\* the stores and the eviction timers.
C22_ExpiredNeverServed ==
  [][\A p \in Procs :
       (/\ Ready(p) /\ pc'[p] # pc[p]
        /\ TakenUp(p).op = "generate"
        /\ Has(TakenUp(p), "prompt") /\ TakenUp(p).prompt # <<>>
        /\ Expired(cacheKey(TakenUp(p).prompt, DEFAULT_WEBSITE_TYPE)))
       => pc'[p] = "gen_gen"]_vars

\* C23: every cache entry holds a non-empty html, the one a successful
\* generator call for the entry's key returned; a generator call that throws
\* or returns nothing stores no entry and is answered with the error.
C23_CacheHoldsContent ==
  \A r \in GenerateRequests :
    (Has(r, "prompt") /\ Has(generationCache, cacheKey(r.prompt, DEFAULT_WEBSITE_TYPE))) =>
      /\ generationCache[cacheKey(r.prompt, DEFAULT_WEBSITE_TYPE)] # <<>>
      /\ generationCache[cacheKey(r.prompt, DEFAULT_WEBSITE_TYPE)]
           \in GeneratedHtml(r.prompt, DEFAULT_WEBSITE_TYPE)

\* C24: a listing asked for with neither user_id nor public_only is answered
\* with stored websites that are all public, newest updated_at first, whatever
\* type, tags and limit it is asked with and whatever is stored.
C24_UnscopedListPublic ==
  \A p \in Procs :
    (/\ Answered(p, "list", 200)
     /\ ~Has(resp[p].request, "user_id")
     /\ ~Has(resp[p].request, "public_only")) =>
      LET list == resp[p].websites
      IN  /\ resp[p].count = Len(list)
          /\ \A i \in 1..Len(list) :
               /\ IsPublic(list[i])
               /\ list[i] = getWebsiteById(list[i].website_id)
          /\ \A i, j \in 1..Len(list) :
               i < j => list[i].updated_at >= list[j].updated_at

\* such a listing, filtered by type and tags, is answered with a website while
\* a private website of that type and with those tags is stored
C24_Witness ==
  /\ Answered("P1", "list", 200)
  /\ DOMAIN resp["P1"].request = {"op", "type", "tags", "limit"}
  /\ resp["P1"].count = 1
  /\ \E w \in WebsiteIds :
       /\ Exists(websites[w]) /\ ~IsPublic(websites[w])
       /\ Passes(websites[w], Pick(ListFilters(resp["P1"].request), {"type", "tags"}))

\* C25: a versions request is decided as a get of the same website by the same
\* caller is: for a private website and a caller who is not its owner (or who
\* names no user) the answer is 403 and carries no website and no version;
\* for a public website, or for the owner, it is 200 and lists every stored
\* version of the website exactly once, greatest version_number first, each
\* without its html.
C25_VersionsVisibility ==
  \A p \in Procs :
    (/\ pc[p] = "done" /\ resp[p].request.op = "versions"
     /\ Has(resp[p].request, "website_id")) =>
      LET r == resp[p].request
          w == getWebsiteById(r.website_id)
          list == resp[p].versions
      IN  /\ resp[p].status = GetDecision(w, r).status
          /\ (/\ Exists(w) /\ ~IsPublic(w)
              /\ ~(Has(r, "user_id") /\ w.user_id = r.user_id)) =>
               /\ resp[p].status = 403
               /\ DOMAIN resp[p] = {"request", "status", "success", "error"}
          /\ (/\ Exists(w)
              /\ IsPublic(w) \/ (Has(r, "user_id") /\ w.user_id = r.user_id)) =>
               /\ resp[p].status = 200
               /\ Len(list) = Cardinality(VersionsOf(r.website_id))
               /\ {list[i].version_id : i \in 1..Len(list)} = VersionsOf(r.website_id)
               /\ \A i \in 1..Len(list) :
                    /\ ~Has(list[i], "html")
                    /\ list[i] = Pick(versions[list[i].version_id], DOMAIN list[i])
               /\ \A i, j \in 1..Len(list) :
                    i < j => ~DblLess(list[i].version_number, list[j].version_number)

\* the owner of a private website is answered with its two versions, the edited
\* one first
C25_Witness ==
  /\ Answered("P1", "versions", 200)
  /\ ~IsPublic(getWebsiteById(resp["P1"].request.website_id))
  /\ resp["P1"].count = 2
  /\ DblLess(resp["P1"].versions[2].version_number, resp["P1"].versions[1].version_number)
  /\ Has(resp["P1"].versions[1], "edit_prompt")

\* the steps of an update request of process p
Updating(p) ==
  /\ pc'[p] # pc[p]
  /\ \/ pc[p] \in {"upd_read", "upd_write"}
     \/ Ready(p) /\ TakenUp(p).op = "update"

\* C26: an update request changes nothing but project_name, description,
\* is_public, tags, thumbnail and updated_at of the website it names, whatever
\* properties its body carries: every other property of that website (user_id,
\* latest_version_id, the counters, the fork origin), every other website and
\* every version stay as they are, and only its last step writes.
C26_UpdateFrame ==
  [][\A p \in Procs : Updating(p) =>
       /\ versions' = versions
       /\ <<generationCache, timers, nextWebsiteId, nextVersionId>>' =
            <<generationCache, timers, nextWebsiteId, nextVersionId>>
       /\ \A w \in WebsiteIds :
            IF pc[p] = "upd_write" /\ w = req[p].website_id
              THEN \A f \in (DOMAIN websites[w] \cup DOMAIN websites'[w])
                              \ {"project_name", "description", "is_public", "tags",
                                 "thumbnail", "updated_at"} :
                     /\ Has(websites[w], f) /\ Has(websites'[w], f)
                     /\ websites'[w][f] = websites[w][f]
              ELSE websites'[w] = websites[w]]_vars

\* an update that sends is_public and a total_forks is answered 200; the
\* website is public, later than it was created, and has its own total_forks
C26_Witness ==
  /\ Answered("P1", "update", 200)
  /\ Has(resp["P1"].request, "total_forks")
  /\ LET w == getWebsiteById(resp["P1"].request.website_id)
     IN  /\ w.is_public = resp["P1"].request.is_public
         /\ w.total_forks # resp["P1"].request.total_forks
         /\ w.updated_at > w.created_at

\* C27: a stored version never changes: from one state to the next it is the
\* same object, or it is gone, removed by a delete of the website it belongs
\* to; creates, edits, forks, updates and gets leave every stored version as
\* it is.
C27_VersionsWriteOnce ==
  [][\A v \in VersionIds : Exists(versions[v]) =>
       \/ versions'[v] = versions[v]
       \/ /\ ~Exists(versions'[v])
          /\ \E p \in Procs :
               /\ pc[p] = "del_removeV" /\ loc'[p] # loc[p]
               /\ req[p].op = "delete"
               /\ versions[v].website_id = req[p].website_id]_vars

\* an edit has been answered, a second version is stored, and the version it
\* edited is stored as its parent
C27_Witness ==
  /\ Answered("P1", "edit", 200)
  /\ \E v, u \in VersionIds :
       /\ Exists(versions[v]) /\ Exists(versions[u]) /\ u # v
       /\ versions[v].parent_version_id = u
       /\ versions[u].website_id = versions[v].website_id
       /\ ~Has(versions[u], "edit_prompt")

\* the owner and the fork origin of a website
Identity(website) ==
  Pick(website, {"user_id", "is_fork", "original_website_id", "original_user_id"})

\* C28: whenever a website is stored under an id, its user_id, is_fork,
\* original_website_id and original_user_id are the ones its create or fork
\* wrote: a record appears under an id only as the object a create or a fork
\* sets, and from one state to the next a stored record keeps these four,
\* however the requests interleave.
C28_IdentityKept ==
  [][\A w \in WebsiteIds : Exists(websites'[w]) =>
       IF Exists(websites[w])
         THEN Identity(websites'[w]) = Identity(websites[w])
         ELSE \E p \in Procs :
                \/ /\ pc[p] = "create_setW"
                   /\ loc[p].website.website_id = w
                   /\ websites'[w] = loc[p].website
                \/ /\ pc[p] = "fork_setW"
                   /\ loc[p].newWebsite.website_id = w
                   /\ websites'[w] = loc[p].newWebsite]_vars

\* the number of variations a request asks for, 0 when it names none
Count(r) == IF Has(r, "variations") THEN r.variations ELSE 0

\* C29: a variations request for count >= 1 variations whose generations all
\* succeed is answered 200 with exactly min(count, MAX_VARIATIONS) entries,
\* the i-th of them with variation_id i and the prompt of variation i; it is
\* answered otherwise only when it has no prompt (400) or when the generator
\* failed or returned nothing (500).
C29_VariationsCount ==
  \A p \in Procs :
    (pc[p] = "done" /\ resp[p].request.op = "variations" /\ Count(resp[p].request) >= 1) =>
      LET r == resp[p].request
          n == IF r.variations < MAX_VARIATIONS THEN r.variations ELSE MAX_VARIATIONS
      IN  /\ resp[p].status = 400 <=> ~Has(r, "prompt")
          /\ resp[p].status = 500 =>
               resp[p].error \in GeneratorErrors \cup {<<"No content generated.">>}
          /\ resp[p].status \in {200, 400, 500}
          /\ resp[p].status = 200 =>
               /\ Len(resp[p].variations) = n
               /\ resp[p].count = n
               /\ \A i \in 1..n :
                    /\ resp[p].variations[i].variation_id = i
                    /\ resp[p].variations[i].prompt = variedPrompt(r.prompt, i - 1)

\* a request for 11 variations is answered with 10
C29_Witness ==
  /\ Answered("P1", "variations", 200)
  /\ Count(resp["P1"].request) = 11
  /\ resp["P1"].count = 10
  /\ resp["P1"].variations[10].variation_id = 10

\* the cache keys of the first i variations of request r
VariationKeys(r, i) ==
  {cacheKey(variedPrompt(r.prompt, j), TypeOf(r)) : j \in 0..(i - 1)}

\* C30: the variations of one request have cache keys that differ from one
\* another and from the key of the request's own prompt and type; so a request
\* that finds in the cache at most the entry of that plain key, and that has
\* since stored its own variations, calls the generator for each of its
\* variations: none of them is served from the cache.
C30_VariationKeysDistinct ==
  [][\A p \in Procs :
       LET r == TakenUp(p)
           plain == cacheKey(r.prompt, TypeOf(r))
       IN  (/\ pc'[p] # pc[p]
            /\ Ready(p) \/ pc[p] = "var_gen"
            /\ r.op = "variations" /\ Has(r, "prompt"))
           =>
           /\ Cardinality(VariationKeys(r, actualVariations(r))) = actualVariations(r)
           /\ plain \notin VariationKeys(r, actualVariations(r))
           /\ (DOMAIN generationCache \subseteq
                 {plain} \cup VariationKeys(r, IF Ready(p) THEN 0
                                               ELSE Len(loc[p].results))) =>
                IF Ready(p)
                  THEN pc'[p] = "var_gen" /\ loc'[p].results = <<>>
                ELSE IF pc'[p] = "var_gen"
                  THEN Len(loc'[p].results) = Len(loc[p].results) + 1
                ELSE \/ resp'[p].status = 500
                     \/ /\ resp'[p].status = 200
                        /\ resp'[p].count = Len(loc[p].results) + 1]_vars

\* a request for two variations has been answered from two generator calls
\* while the cache held the entry of its plain prompt: the cache holds three
\* entries
C30_Witness ==
  /\ Answered("P1", "variations", 200)
  /\ resp["P1"].count = 2
  /\ Has(generationCache, cacheKey(resp["P1"].request.prompt, DEFAULT_WEBSITE_TYPE))
  /\ DOMAIN generationCache =
       {cacheKey(resp["P1"].request.prompt, DEFAULT_WEBSITE_TYPE)}
         \cup VariationKeys(resp["P1"].request, 2)
  /\ Cardinality(DOMAIN generationCache) = 3
  /\ \A i \in 1..2 :
       resp["P1"].variations[i].html
         # generationCache[cacheKey(resp["P1"].request.prompt, DEFAULT_WEBSITE_TYPE)]

\* C31: a request that is waiting for the generator is answered in the end,
\* with a success or an error, also when the generator never answers.
C31_HungGeneratorAbandoned ==
  \A p \in Procs : (pc[p] \in AwaitingGenerator) ~> (pc[p] = "done")

\* C32: whenever no request is in progress, the latest_version_id of a stored
\* website names the version with the greatest version_number among the stored
\* versions of the website, also after a minor and a major edit of it that
\* overlapped.
C32_LatestIsGreatest ==
  Quiescent =>
    \A w \in WebsiteIds :
      (/\ Exists(websites[w]) /\ Has(websites[w], "latest_version_id")
       /\ websites[w].latest_version_id \in VersionsOf(w)) =>
        \A v \in VersionsOf(w) :
          ~DblLess(versions[websites[w].latest_version_id].version_number,
                   versions[v].version_number)

\* C33: two different stored versions of one website have different version
\* numbers, in whatever order and with whatever overlap the minor and major
\* edits of the website run.
C33_DistinctVersionNumbers ==
  \A v, u \in VersionIds :
    (/\ v # u /\ Exists(versions[v]) /\ Exists(versions[u])
     /\ versions[v].website_id = versions[u].website_id) =>
      versions[v].version_number # versions[u].version_number

\* C34: an id is handed out once, and its record is set once, by the create or
\* the fork that drew it; so a record that a delete has removed stays removed:
\* the only step after which a record is stored under an id that held none is
\* that set, never the update of an edit, of a fork or of a view count.
C34_NoRecordAfterDelete ==
  [][\A w \in WebsiteIds :
       (~Exists(websites[w]) /\ Exists(websites'[w])) =>
         \E p \in Procs :
           /\ pc[p] \in {"create_setW", "fork_setW"}
           /\ pc'[p] \in {"create_setV", "fork_setV"}
           /\ Has(websites'[w], "website_id") /\ websites'[w].website_id = w
           /\ Has(websites'[w], "created_at")]_vars

\* the website records a response carries
Returned(response) ==
  IF response.status # 200 THEN {}
  ELSE IF response.request.op \in {"get", "versions"} THEN {response.website}
  ELSE IF response.request.op = "list"
    THEN {response.websites[i] : i \in 1..Len(response.websites)}
  ELSE IF response.request.op = "forked_from"
    THEN {response.forks[i] : i \in 1..Len(response.forks)}
  ELSE {}

\* C35: a get, a listing, a versions request or a forked_from request returns
\* the record of a website that is not public only to a caller who named the
\* website's owner as user_id.
C35_NoPrivateRead ==
  \A p \in Procs :
    pc[p] = "done" =>
      \A website \in Returned(resp[p]) :
        \/ IsPublic(website)
        \/ /\ Has(resp[p].request, "user_id") /\ Has(website, "user_id")
           /\ website.user_id = resp[p].request.user_id

C37_ServedOwnEntry ==
  \A p \in Procs :
    Answered(p, "generate", 200) =>
      LET r == resp[p].request
      IN  resp[p].html \in
            {StripFence(text) : text \in GeneratorAnswers(fullPrompt(r.prompt, TypeOf(r)))}

\* C38: with one request at a time, the website in the answer of a successful
\* edit has the latest_version_id, the total_versions and the total_edits of
\* the stored website as the edit left it.
C38_EditAnswerIsStored ==
  \A p \in Procs :
    Answered(p, "edit", 200) =>
      LET stored == websites[resp[p].request.website_id]
          returned == resp[p].website
      IN  /\ returned.latest_version_id = stored.latest_version_id
          /\ returned.total_versions = stored.total_versions
          /\ returned.total_edits = stored.total_edits
====
